---- MODULE Spec2Model ----
(***************************************************************************)
(* Birdhouse: provider streaming core.                                     *)
(*                                                                         *)
(* A string is a sequence of characters.  A character is a one-element     *)
(* TLA+ string; a run of ordinary characters that no operation looks       *)
(* inside (a key name, an identifier, a timestamp) is written as one       *)
(* character, so "token" stands for the five letters of the word.          *)
(* The characters the code inspects are kept apart: line feed, carriage    *)
(* return, space, the double quote, the backslash, the JSON punctuation    *)
(* and the pieces of the "data:" field name.                               *)
(***************************************************************************)
EXTENDS Integers, Sequences, FiniteSets, TLC

(***************************************************************************)
(* Bounds of the model.                                                    *)
(***************************************************************************)
MaxEvents == 2          \* events in an encoded sequence
MaxWire == 60           \* bytes of an encoded sequence
MaxFrames == 2          \* frames in an arbitrary incoming stream
MaxStream == 36         \* bytes of an arbitrary incoming stream
MaxDeltas == 2          \* token deltas of a hosted-model turn
MaxOutput == 2          \* data chunks on each output stream of a child process
MaxArgs == 2            \* arguments of a configured command line
MaxItems == 2           \* elements of an array, members of an object
MaxLines == 2           \* lines a command prints
MaxJobs == 2            \* async dispatches the server starts
MaxTurns == 1           \* chat turns the server starts
MaxSent == 1            \* HTTP requests the client sends
MaxAdapters == 2        \* adapters handed to a registry
MaxCaps == 2            \* descriptors in a capabilities list
MaxChatTurns == 2       \* chat turns that share a configuration
MaxUrl == 3             \* characters of a base URL and of a path

LF == "\n"
CR == "\r"
SP == " "
QUOTE == "\""
BSL == "\\"

(***************************************************************************)
(* String primitives of the runtime.                                       *)
(***************************************************************************)
Drop(s, n) == SubSeq(s, n + 1, Len(s))

Take(s, n) == SubSeq(s, 1, n)

StartsWith(s, p) == Len(s) >= Len(p) /\ Take(s, Len(p)) = p

\* the pieces f[lo] .. f[hi] joined in order
RECURSIVE Flatten(_, _, _)
Flatten(f, lo, hi) ==
    IF lo > hi THEN <<>>
    ELSE IF lo = hi THEN f[lo]
    ELSE LET mid == (lo + hi) \div 2
         IN  Flatten(f, lo, mid) \o Flatten(f, mid + 1, hi)

\* String.prototype.indexOf: 1-based index of the first occurrence, 0 if none
IndexFrom(s, p, i) ==
    LET hits == {k \in i..(Len(s) - Len(p) + 1) :
                    \A j \in 1..Len(p) : s[k + j - 1] = p[j]}
    IN  IF hits = {} THEN 0 ELSE CHOOSE k \in hits : \A m \in hits : k <= m

IndexOf(s, p) == IndexFrom(s, p, 1)

\* String.prototype.split with a non-empty separator
RECURSIVE Split(_, _)
Split(s, sep) ==
    LET i == IndexOf(s, sep)
    IN  IF i = 0 THEN <<s>>
        ELSE <<Take(s, i - 1)>> \o Split(Drop(s, i + Len(sep) - 1), sep)

\* s.replace(/\r\n/g, "\n")
ReplaceCRLF(s) ==
    Flatten([k \in 1..Len(s) |->
                IF s[k] = CR /\ k < Len(s) /\ s[k + 1] = LF THEN <<>> ELSE <<s[k]>>],
            1, Len(s))

WhiteSpace == {SP, LF, CR, "\t"}

RECURSIVE TrimStart(_)
TrimStart(s) ==
    IF s # <<>> /\ Head(s) \in WhiteSpace THEN TrimStart(Tail(s)) ELSE s

RECURSIVE TrimEnd(_)
TrimEnd(s) ==
    IF s # <<>> /\ s[Len(s)] \in WhiteSpace THEN TrimEnd(Take(s, Len(s) - 1)) ELSE s

\* String.prototype.trim
Trim(s) == TrimEnd(TrimStart(s))

RECURSIVE Concat(_)
Concat(ss) == IF ss = <<>> THEN <<>> ELSE Head(ss) \o Concat(Tail(ss))

(***************************************************************************)
(* JSON values.  [t, s, o]: t is the kind of value, s the characters of a  *)
(* string (or the literal of a scalar), o the members of an object.        *)
(***************************************************************************)
NoMembers == <<>>

JStr(s) == [t |-> "str", s |-> s, o |-> NoMembers, k |-> <<>>, a |-> <<>>]

JAtom(a) == JStr(<<a>>)

JBool(b) ==
    [t |-> "bool", s |-> <<IF b THEN "true" ELSE "false">>, o |-> NoMembers,
     k |-> <<>>, a |-> <<>>]

JNum(n) == [t |-> "num", s |-> <<n>>, o |-> NoMembers, k |-> <<>>, a |-> <<>>]

JNull == [t |-> "null", s |-> <<"null">>, o |-> NoMembers, k |-> <<>>, a |-> <<>>]

\* the order in which the members of an object literal are written
KeyOrder ==
    <<"type", "messageId", "threadId", "text", "token", "status", "createdAt",
      "isTyping", "attachment", "kind", "name", "mimeType",
      "code", "message", "retryable", "events", "foo",
      "output", "response", "result", "completion", "content", "bar",
      "id", "displayName", "provider", "baseUrl", "auth", "extra", "contact",
      "delaySeconds", "contactId", "expoPushToken", "platform", "history",
      "metadata", "attachments", "username", "password", "role",
      "capabilities", "supportsStreaming", "supportsAttachments", "supportsAsync",
      "timeoutMs">>

\* an object with its members in the order `keys` (Object.keys)
JObjOrdered(members, keys) ==
    [t |-> "obj", s |-> <<>>, o |-> members, k |-> keys, a |-> <<>>]

JObj(members) ==
    JObjOrdered(members, SelectSeq(KeyOrder, LAMBDA key : key \in DOMAIN members))

JArr(items) == [t |-> "arr", s |-> <<>>, o |-> NoMembers, k |-> <<>>, a |-> items]

Has(v, k) == v.t = "obj" /\ k \in DOMAIN v.o

\* typeof v?.[k] === "string"
HasString(v, k) == Has(v, k) /\ v.o[k].t = "str"

Digits == {"0", "1", "7"}

RECURSIVE JsonEscape(_)
JsonEscape(s) ==
    IF s = <<>> THEN <<>>
    ELSE LET c == Head(s)
         IN  (CASE c = QUOTE -> <<BSL, QUOTE>>
                [] c = BSL   -> <<BSL, BSL>>
                [] c = LF    -> <<BSL, "n">>
                [] c = CR    -> <<BSL, "r">>
                [] c = "\t"  -> <<BSL, "t">>
                [] OTHER     -> <<c>>) \o JsonEscape(Tail(s))

RECURSIVE JsonStringify(_), StringifyMembers(_, _, _), StringifyItems(_)
StringifyItems(items) ==
    IF items = <<>> THEN <<>>
    ELSE JsonStringify(Head(items))
         \o (IF Len(items) > 1 THEN <<",">> ELSE <<>>)
         \o StringifyItems(Tail(items))

StringifyMembers(o, i, first) ==
    IF i > Len(KeyOrder) THEN <<>>
    ELSE IF KeyOrder[i] \in DOMAIN o
         THEN (IF first THEN <<>> ELSE <<",">>)
              \o <<QUOTE, KeyOrder[i], QUOTE, ":">>
              \o JsonStringify(o[KeyOrder[i]])
              \o StringifyMembers(o, i + 1, FALSE)
         ELSE StringifyMembers(o, i + 1, first)

JsonStringify(v) ==
    CASE v.t = "str" -> <<QUOTE>> \o JsonEscape(v.s) \o <<QUOTE>>
      [] v.t = "obj" -> <<"{">> \o StringifyMembers(v.o, 1, TRUE) \o <<"}">>
      [] v.t = "arr" -> <<"[">> \o StringifyItems(v.a) \o <<"]">>
      [] OTHER       -> v.s

(***************************************************************************)
(* JSON.parse: a result [ok, val, rest]; ok = FALSE is the SyntaxError.    *)
(* Objects, arrays, strings, numbers, booleans and null are read; white     *)
(* space between tokens is skipped.  A member name is one character of the *)
(* model.                                                                  *)
(***************************************************************************)
ParseFail == [ok |-> FALSE, val |-> JNull, rest |-> <<>>]

ParseOk(v, rest) == [ok |-> TRUE, val |-> v, rest |-> rest]

Unescape(c) ==
    CASE c = "n" -> LF
      [] c = "r" -> CR
      [] c = "t" -> "\t"
      [] OTHER   -> c

RECURSIVE ParseStringBody(_, _)
ParseStringBody(s, acc) ==
    IF s = <<>> THEN ParseFail
    ELSE LET c == Head(s)
         IN  CASE c = QUOTE -> ParseOk(JStr(acc), Tail(s))
               [] c = BSL ->
                    IF Len(s) >= 2 /\ s[2] \in {QUOTE, BSL, "n", "r", "t"}
                    THEN ParseStringBody(Drop(s, 2), Append(acc, Unescape(s[2])))
                    ELSE ParseFail
               [] c \in {LF, CR, "\t"} -> ParseFail
               [] OTHER -> ParseStringBody(Tail(s), Append(acc, c))

RECURSIVE ParseValue(_), ParseMembers(_, _, _), ParseItems(_, _)
ParseItems(s, acc) ==
    LET v == ParseValue(s)
    IN  IF ~v.ok THEN ParseFail
        ELSE LET s1 == TrimStart(v.rest)
             IN  IF s1 = <<>> THEN ParseFail
                 ELSE IF Head(s1) = "]" THEN ParseOk(JArr(Append(acc, v.val)), Tail(s1))
                 ELSE IF Head(s1) = "," THEN ParseItems(Tail(s1), Append(acc, v.val))
                 ELSE ParseFail

ParseMembers(s, acc, keys) ==
    LET s0 == TrimStart(s)
    IN  IF s0 = <<>> \/ Head(s0) # QUOTE THEN ParseFail
        ELSE LET k == ParseStringBody(Tail(s0), <<>>)
             IN  IF ~k.ok \/ Len(k.val.s) # 1 THEN ParseFail
                 ELSE LET s1 == TrimStart(k.rest)
                      IN  IF s1 = <<>> \/ Head(s1) # ":" THEN ParseFail
                          ELSE LET v == ParseValue(Tail(s1))
                               IN  IF ~v.ok THEN ParseFail
                                   ELSE LET s2 == TrimStart(v.rest)
                                            key == k.val.s[1]
                                            m  == (key :> v.val) @@ acc
                                            ks == IF key \in DOMAIN acc THEN keys
                                                  ELSE Append(keys, key)
                                        IN  IF s2 = <<>> THEN ParseFail
                                            ELSE IF Head(s2) = "}"
                                                 THEN ParseOk(JObjOrdered(m, ks), Tail(s2))
                                            ELSE IF Head(s2) = ","
                                                 THEN ParseMembers(Tail(s2), m, ks)
                                            ELSE ParseFail

ParseValue(s) ==
    LET s0 == TrimStart(s)
    IN  IF s0 = <<>> THEN ParseFail
        ELSE LET c == Head(s0)
             IN  CASE c = QUOTE -> ParseStringBody(Tail(s0), <<>>)
                   [] c = "{" ->
                        LET s1 == TrimStart(Tail(s0))
                        IN  IF s1 # <<>> /\ Head(s1) = "}"
                            THEN ParseOk(JObj(NoMembers), Tail(s1))
                            ELSE ParseMembers(s1, NoMembers, <<>>)
                   [] c = "[" ->
                        LET s1 == TrimStart(Tail(s0))
                        IN  IF s1 # <<>> /\ Head(s1) = "]"
                            THEN ParseOk(JArr(<<>>), Tail(s1))
                            ELSE ParseItems(s1, <<>>)
                   [] c \in {"true", "false"} -> ParseOk(JBool(c = "true"), Tail(s0))
                   [] c = "null" -> ParseOk(JNull, Tail(s0))
                   [] c \in Digits -> ParseOk(JNum(c), Tail(s0))
                   [] OTHER -> ParseFail

JsonParse(s) ==
    LET r == ParseValue(s)
    IN  IF r.ok /\ TrimStart(r.rest) = <<>> THEN r ELSE ParseFail


(***************************************************************************)
(* Text extraction from the JSON output of a command:                      *)
(* extractTextFromUnknown of the provider SDK and of the server.           *)
(***************************************************************************)
preferredKeys ==
    <<"text", "message", "output", "response", "result", "completion", "content">>

\* a non-empty string is truthy
Truthy(str) == Len(str) > 0

\* Array.prototype.join
RECURSIVE Join(_, _)
Join(parts, sep) ==
    IF parts = <<>> THEN <<>>
    ELSE IF Len(parts) = 1 THEN Head(parts)
    ELSE Head(parts) \o sep \o Join(Tail(parts), sep)

RECURSIVE extractTextFromUnknown(_)
extractTextFromUnknown(value) ==
    CASE value.t = "str" -> value.s
      [] value.t = "arr" ->
            Trim(Join(SelectSeq([i \in 1..Len(value.a) |->
                                    extractTextFromUnknown(value.a[i])], Truthy),
                      <<LF>>))
      [] value.t = "obj" ->
            LET direct == [i \in 1..Len(preferredKeys) |->
                              IF preferredKeys[i] \in DOMAIN value.o
                              THEN extractTextFromUnknown(value.o[preferredKeys[i]])
                              ELSE <<>>]
                hits == SelectSeq(direct, Truthy)
                nested == SelectSeq([i \in 1..Len(value.k) |->
                                        extractTextFromUnknown(value.o[value.k[i]])],
                                    Truthy)
            IN  IF hits # <<>> THEN hits[1]
                ELSE IF nested # <<>> THEN nested[1]
                ELSE <<>>
      [] OTHER -> <<>>

\* String.prototype.split(/\r?\n/)
SplitLines(s) == Split(ReplaceCRLF(s), <<LF>>)

\* the parts of the catch branch: the trimmed extraction of every non-blank
\* line that parses and extracts text
RECURSIVE LineParts(_)
LineParts(lines) ==
    IF lines = <<>> THEN <<>>
    ELSE LET line == Trim(Head(lines))
             parsed == JsonParse(line)
             text == IF parsed.ok THEN Trim(extractTextFromUnknown(parsed.val)) ELSE <<>>
         IN  (IF line # <<>> /\ parsed.ok /\ text # <<>> THEN <<text>> ELSE <<>>)
             \o LineParts(Tail(lines))

\* mutant: the catch branch returns the joined parts even when there are none
normalizeCliOutputNoFallback(stdout_, stderr_, parseMode) ==
    LET trimmedStdout == Trim(stdout_)
        parsed == JsonParse(trimmedStdout)
        text == IF parsed.ok THEN Trim(extractTextFromUnknown(parsed.val)) ELSE <<>>
        parts == LineParts(SplitLines(trimmedStdout))
    IN  IF parseMode = "json" /\ Len(trimmedStdout) > 0 /\ parsed.ok /\ text # <<>>
        THEN text
        ELSE IF parseMode = "json" /\ Len(trimmedStdout) > 0 /\ ~parsed.ok
        THEN Join(parts, <<LF>>)
        ELSE IF Len(trimmedStdout) > 0 THEN trimmedStdout
        ELSE Trim(stderr_)

normalizeCliOutput(stdout_, stderr_, parseMode) ==
    LET trimmedStdout == Trim(stdout_)
        parsed == JsonParse(trimmedStdout)
        text == IF parsed.ok THEN Trim(extractTextFromUnknown(parsed.val)) ELSE <<>>
        parts == LineParts(SplitLines(trimmedStdout))
    IN  IF parseMode = "json" /\ Len(trimmedStdout) > 0 /\ parsed.ok /\ text # <<>>
        THEN text
        ELSE IF parseMode = "json" /\ Len(trimmedStdout) > 0 /\ ~parsed.ok
                /\ Len(parts) > 0
        THEN Join(parts, <<LF>>)
        ELSE IF Len(trimmedStdout) > 0 THEN trimmedStdout
        ELSE Trim(stderr_)

\* the server's copy of the normalizer
normalizeWrappedOutput(stdout_, stderr_, parse) ==
    normalizeCliOutput(stdout_, stderr_, parse)

(***************************************************************************)
(* packages/protocol: the zod schemas.  safeParse gives [success, data];   *)
(* an object schema keeps only the members it declares.                    *)
(***************************************************************************)
IsoNow == "2026-01-01T00:00:00.000Z"

ProviderKindSchema ==
    {"ai-sdk", "openclaw", "pi-mono", "terminal-cli", "claude-code-cli",
     "openclaw-cli", "nanoclaw-cli"}

MessageStatusSchema == {"sending", "sent", "received", "read", "failed", "streaming"}

ZodFail == [success |-> FALSE, data |-> JNull]

ZodOk(v) == [success |-> TRUE, data |-> v]

Strip(v, keys) == JObj([k \in (DOMAIN v.o) \cap keys |-> v.o[k]])

\* z.string().min(1)
ZMin1(v, k) == HasString(v, k) /\ Len(v.o[k].s) >= 1

\* z.string().datetime()
ZDatetime(v, k) == HasString(v, k) /\ v.o[k].s = <<IsoNow>>

ZEnum(v, k, values) == HasString(v, k) /\ Len(v.o[k].s) = 1 /\ v.o[k].s[1] \in values

ZBoolean(v, k) == Has(v, k) /\ v.o[k].t = "bool"

ZOptionalMin1(v, k) == ~Has(v, k) \/ ZMin1(v, k)

AttachmentSchema(v) ==
    IF /\ v.t = "obj"
       /\ ZEnum(v, "kind", {"image", "file"})
       /\ ZMin1(v, "name")
       /\ ZOptionalMin1(v, "mimeType")
    THEN ZodOk(Strip(v, {"kind", "name", "mimeType"}))
    ELSE ZodFail

MessageStartEventSchema(v) ==
    IF ZMin1(v, "messageId") /\ ZMin1(v, "threadId") /\ ZDatetime(v, "createdAt")
    THEN ZodOk(Strip(v, {"type", "messageId", "threadId", "createdAt"}))
    ELSE ZodFail

TokenEventSchema(v) ==
    IF HasString(v, "text") THEN ZodOk(Strip(v, {"type", "text"})) ELSE ZodFail

AttachmentEventSchema(v) ==
    IF Has(v, "attachment") /\ AttachmentSchema(v.o.attachment).success
    THEN ZodOk(JObj([type |-> v.o.type,
                     attachment |-> AttachmentSchema(v.o.attachment).data]))
    ELSE ZodFail

TypingEventSchema(v) ==
    IF ZBoolean(v, "isTyping") THEN ZodOk(Strip(v, {"type", "isTyping"})) ELSE ZodFail

MessageEndEventSchema(v) ==
    IF /\ ZMin1(v, "messageId")
       /\ HasString(v, "text")
       /\ ZEnum(v, "status", MessageStatusSchema)
       /\ ZDatetime(v, "createdAt")
    THEN ZodOk(Strip(v, {"type", "messageId", "text", "status", "createdAt"}))
    ELSE ZodFail

ErrorEventSchema(v) ==
    IF /\ ZMin1(v, "code")
       /\ ZMin1(v, "message")
       /\ (Has(v, "retryable") => ZBoolean(v, "retryable"))
    THEN ZodOk(JObj([type |-> v.o.type, code |-> v.o.code, message |-> v.o.message,
                     retryable |-> IF Has(v, "retryable") THEN v.o.retryable
                                   ELSE JBool(FALSE)]))
    ELSE ZodFail

\* z.discriminatedUnion("type", [...]).safeParse
StreamEventSchema(v) ==
    IF ~HasString(v, "type") THEN ZodFail
    ELSE LET ty == v.o.type.s
         IN  CASE ty = <<"message_start">> -> MessageStartEventSchema(v)
               [] ty = <<"token">>         -> TokenEventSchema(v)
               [] ty = <<"attachment">>    -> AttachmentEventSchema(v)
               [] ty = <<"typing">>        -> TypingEventSchema(v)
               [] ty = <<"message_end">>   -> MessageEndEventSchema(v)
               [] ty = <<"error">>         -> ErrorEventSchema(v)
               [] OTHER                    -> ZodFail

(***************************************************************************)
(* The request schemas.  Each operator tells whether Schema.parse(v)       *)
(* returns (TRUE) or throws (FALSE).                                       *)
(***************************************************************************)

\* the number literals of the requests: the value is whole + tenths / 10
NumberLiterals ==
    [lit \in {"-1", "0", "0.5", "1", "1.5", "5", "3600", "3601"} |->
        CASE lit = "-1"   -> [whole |-> -1, tenths |-> 0]
          [] lit = "0"    -> [whole |-> 0, tenths |-> 0]
          [] lit = "0.5"  -> [whole |-> 0, tenths |-> 5]
          [] lit = "1"    -> [whole |-> 1, tenths |-> 0]
          [] lit = "1.5"  -> [whole |-> 1, tenths |-> 5]
          [] lit = "5"    -> [whole |-> 5, tenths |-> 0]
          [] lit = "3600" -> [whole |-> 3600, tenths |-> 0]
          [] lit = "3601" -> [whole |-> 3601, tenths |-> 0]]

\* z.number()
ZNumber(v, k) == Has(v, k) /\ v.o[k].t = "num" /\ v.o[k].s[1] \in DOMAIN NumberLiterals

NumberOf(v, k) == NumberLiterals[v.o[k].s[1]]

\* z.number().int().positive().max(3600)
ZDelaySeconds(v, k) ==
    /\ ZNumber(v, k)
    /\ NumberOf(v, k).tenths = 0
    /\ (NumberOf(v, k).whole > 0 \/ (NumberOf(v, k).whole = 0 /\ NumberOf(v, k).tenths > 0))
    /\ (NumberOf(v, k).whole < 3600
          \/ (NumberOf(v, k).whole = 3600 /\ NumberOf(v, k).tenths = 0))

\* z.string().url()
ZUrl(v, k) ==
    HasString(v, k) /\ Len(v.o[k].s) = 2 /\ v.o[k].s[1] \in {"http://", "https://"}

\* z.string().optional()
ZOptionalString(v, k) == ~Has(v, k) \/ HasString(v, k)

AuthConfigSchema(v) ==
    /\ HasString(v, "type")
    /\ CASE v.o.type.s = <<"none">>   -> TRUE
         [] v.o.type.s = <<"bearer">> -> ZMin1(v, "token")
         [] v.o.type.s = <<"basic">>  -> ZMin1(v, "username") /\ ZMin1(v, "password")
         [] OTHER                     -> FALSE

ProviderConfigSchema(v) ==
    /\ v.t = "obj"
    /\ ZEnum(v, "kind", ProviderKindSchema)
    /\ ZUrl(v, "baseUrl")
    /\ (Has(v, "auth") => AuthConfigSchema(v.o.auth))
    /\ (Has(v, "extra") => v.o.extra.t = "obj")

ContactSchema(v) ==
    /\ v.t = "obj"
    /\ ZMin1(v, "id")
    /\ ZMin1(v, "displayName")
    /\ Has(v, "provider") /\ ProviderConfigSchema(v.o.provider)

\* z.array(AttachmentSchema).default([])
ZAttachments(v, k) ==
    ~Has(v, k) \/ (/\ v.o[k].t = "arr"
                   /\ \A i \in 1..Len(v.o[k].a) : AttachmentSchema(v.o[k].a[i]).success)

MessageSchema(v) ==
    /\ v.t = "obj"
    /\ ZMin1(v, "id")
    /\ ZMin1(v, "threadId")
    /\ ZEnum(v, "role", {"user", "agent", "system"})
    /\ HasString(v, "text")
    /\ ZAttachments(v, "attachments")
    /\ (Has(v, "status") => ZEnum(v, "status", MessageStatusSchema))
    /\ ZDatetime(v, "createdAt")

OutboundMessageInputSchema(v) ==
    /\ v.t = "obj"
    /\ ZOptionalMin1(v, "id")
    /\ HasString(v, "text")
    /\ ZAttachments(v, "attachments")

ChatStreamRequestSchema(v) ==
    /\ v.t = "obj"
    /\ ZMin1(v, "threadId")
    /\ Has(v, "contact") /\ ContactSchema(v.o.contact)
    /\ Has(v, "message") /\ OutboundMessageInputSchema(v.o.message)
    /\ (Has(v, "history") =>
          /\ v.o.history.t = "arr"
          /\ \A i \in 1..Len(v.o.history.a) : MessageSchema(v.o.history.a[i]))
    /\ (Has(v, "metadata") => v.o.metadata.t = "obj")

PushRegistrationSchema(v) ==
    /\ v.t = "obj"
    /\ ZMin1(v, "contactId")
    /\ ZMin1(v, "threadId")
    /\ ZMin1(v, "expoPushToken")
    /\ ZEnum(v, "platform", {"ios", "android"})

AsyncTriggerRequestSchema(v) ==
    /\ v.t = "obj"
    /\ Has(v, "contact") /\ ContactSchema(v.o.contact)
    /\ ZMin1(v, "threadId")
    /\ ZOptionalString(v, "text")

\* mutant: delaySeconds is only z.number().positive()
AsyncScheduleRequestSchemaAnyPositive(v) ==
    /\ v.t = "obj"
    /\ Has(v, "contact") /\ ContactSchema(v.o.contact)
    /\ ZMin1(v, "threadId")
    /\ ZNumber(v, "delaySeconds")
    /\ (NumberOf(v, "delaySeconds").whole > 0
          \/ (NumberOf(v, "delaySeconds").whole = 0 /\ NumberOf(v, "delaySeconds").tenths > 0))
    /\ ZOptionalString(v, "text")

AsyncScheduleRequestSchema(v) ==
    /\ v.t = "obj"
    /\ Has(v, "contact") /\ ContactSchema(v.o.contact)
    /\ ZMin1(v, "threadId")
    /\ ZDelaySeconds(v, "delaySeconds")
    /\ ZOptionalString(v, "text")

(***************************************************************************)
(* The StreamEvent objects the code builds.                                *)
(***************************************************************************)
MessageStartEvent(messageId, threadId) ==
    JObj([type |-> JAtom("message_start"), messageId |-> JAtom(messageId),
          threadId |-> JAtom(threadId), createdAt |-> JAtom(IsoNow)])

TokenEvent(text) == JObj([type |-> JAtom("token"), text |-> JStr(text)])

TypingEvent(isTyping) == JObj([type |-> JAtom("typing"), isTyping |-> JBool(isTyping)])

MessageEndEvent(messageId, text) ==
    JObj([type |-> JAtom("message_end"), messageId |-> JAtom(messageId),
          text |-> JStr(text), status |-> JAtom("received"),
          createdAt |-> JAtom(IsoNow)])

ErrorEvent(code, message, retryable) ==
    JObj([type |-> JAtom("error"), code |-> JAtom(code), message |-> JStr(message),
          retryable |-> JBool(retryable)])

AttachmentEvent(kind, name) ==
    JObj([type |-> JAtom("attachment"),
          attachment |-> JObj([kind |-> JAtom(kind), name |-> JAtom(name)])])

EventType(e) == e.o.type.s[1]

(***************************************************************************)
(* SSE encoder: hono's stream.writeSSE({data}) as the chat route calls it. *)
(***************************************************************************)
DataPrefix == <<"d", "a", "t", "a", ":">>

DoneMarker == <<"[DONE]">>

RECURSIVE DataLines(_)
DataLines(lines) ==
    IF lines = <<>> THEN <<>>
    ELSE DataPrefix \o <<SP>> \o Head(lines)
         \o (IF Len(lines) > 1 THEN <<LF>> ELSE <<>>) \o DataLines(Tail(lines))

\* mutant: a frame ends with one line feed and no blank line
writeSSEOneNewline(data) == DataLines(Split(data, <<LF>>)) \o <<LF>>

\* stream.writeSSE({ data }): one "data:" line per line of data, then a blank line
writeSSE(data) == DataLines(Split(data, <<LF>>)) \o <<LF, LF>>

(***************************************************************************)
(* SSE decoder of the client: parseSsePayloadFromText, parseSseData and    *)
(* the loop of chatStream over the payloads.                               *)
(***************************************************************************)
RECURSIVE DataItems(_)
DataItems(lines) ==
    IF lines = <<>> THEN <<>>
    ELSE LET line == Head(lines)
             item == Trim(Drop(line, 5))
         IN  (IF StartsWith(line, DataPrefix) /\ Len(item) > 0
              THEN <<item>> ELSE <<>>) \o DataItems(Tail(lines))

RECURSIVE BlockItems(_)
BlockItems(blocks) ==
    IF blocks = <<>> THEN <<>>
    ELSE DataItems(Split(Head(blocks), <<LF>>)) \o BlockItems(Tail(blocks))

parseSsePayloadFromText(payload) ==
    BlockItems(Split(ReplaceCRLF(payload), <<LF, LF>>))

\* the inner while loop of parseSseData: [buffer, items]
RECURSIVE ClientDrain(_, _)
ClientDrain(buf, items) ==
    LET normalized == ReplaceCRLF(buf)
        boundary == IndexOf(normalized, <<LF, LF>>)
    IN  IF boundary = 0 THEN [buffer |-> buf, items |-> items]
        ELSE ClientDrain(Drop(normalized, boundary + 1),
                         items \o parseSsePayloadFromText(Take(normalized, boundary - 1)))

\* the body of chatStream's for-await loop for one payload
ClientDecodeData(data) ==
    IF data = <<>> \/ data = DoneMarker THEN <<>>
    ELSE LET json == JsonParse(data)
         IN  IF json.ok /\ StreamEventSchema(json.val).success
             THEN <<StreamEventSchema(json.val).data>>
             ELSE <<TokenEvent(data)>>

RECURSIVE ClientDecodeAll(_)
ClientDecodeAll(items) ==
    IF items = <<>> THEN <<>>
    ELSE ClientDecodeData(Head(items)) \o ClientDecodeAll(Tail(items))

(***************************************************************************)
(* SSE decoder of the remote-HTTP adapters: parseSseEvents.                *)
(***************************************************************************)
RemoteDecodeData(payload) ==
    IF payload = DoneMarker THEN <<>>
    ELSE LET json == JsonParse(payload)
         IN  IF ~json.ok THEN <<TokenEvent(payload)>>
             ELSE IF StreamEventSchema(json.val).success
                  THEN <<StreamEventSchema(json.val).data>>
             ELSE IF HasString(json.val, "text")
                  THEN <<TokenEvent(json.val.o.text.s)>>
             ELSE IF HasString(json.val, "token")
                  THEN <<TokenEvent(json.val.o.token.s)>>
             ELSE <<>>

RECURSIVE RemoteDecodeAll(_)
RemoteDecodeAll(items) ==
    IF items = <<>> THEN <<>>
    ELSE RemoteDecodeData(Head(items)) \o RemoteDecodeAll(Tail(items))

\* the inner while loop of parseSseEvents: [buffer, events]
RECURSIVE RemoteDrain(_, _)
RemoteDrain(buf, events) ==
    LET normalized == ReplaceCRLF(buf)
        boundary == IndexOf(normalized, <<LF, LF>>)
    IN  IF boundary = 0 THEN [buffer |-> buf, events |-> events]
        ELSE RemoteDrain(Drop(normalized, boundary + 1),
                         events \o RemoteDecodeAll(
                             DataItems(Split(Take(normalized, boundary - 1), <<LF>>))))

(***************************************************************************)
(* State of an SSE decoding run.                                           *)
(*   input    the byte stream a decoder is given: the payloads framed on   *)
(*            it, the line terminator and how the last frame ends          *)
(*   wire     bytes of the stream not yet read                             *)
(*   cbuf, cout   parseSseData's buffer, the events chatStream yielded     *)
(*   rbuf, rout   parseSseEvents' buffer, the events it yielded            *)
(*   tout     events chatStream yields when the response has no body       *)
(*            stream (parseSsePayloadFromText over the whole text)         *)
(*   srcDone  the reader reported done and the decoders returned           *)
(***************************************************************************)
VARIABLES input, wire, cbuf, cout, rbuf, rout, tout, srcDone

sseVars == <<input, wire, cbuf, cout, rbuf, rout, tout, srcDone>>

(***************************************************************************)
(* State of one chat turn.                                                 *)
(*   gen       the generator that produces the turn's events               *)
(*   pc        where that generator is suspended                           *)
(*   msgId     its messageId local                                         *)
(*   genText   the text of the turn (output, fullText, text)               *)
(*   queue     events or tokens it has still to yield                      *)
(*   produced  the events it has yielded, in order                         *)
(*   written   the data strings written to the SSE response, in order      *)
(*   failure   the error the generator threw, if it did                    *)
(*   closed    the streamSSE callback returned                             *)
(*   nextId    the identifiers randomId has handed out                     *)
(***************************************************************************)
VARIABLES gen, pc, msgId, genText, queue, produced, written, failure, closed, nextId,
          response, requests

streamVars ==
    <<gen, pc, msgId, genText, queue, produced, written, failure, closed, nextId,
      response, requests>>

(***************************************************************************)
(* State of one run of the CLI process wrapper.                            *)
(*   wrapper    which copy runs: runCliCommand or runWrappedCommandPrompt  *)
(*   timeoutMs  the configured timeout                                     *)
(*   completed  the one-shot latch                                         *)
(*   timer      the timeout timer: armed, fired or cleared                 *)
(*   child      the spawned process and the events it has emitted          *)
(*   stdout, stderr   the accumulated output                               *)
(*   outcome    the state of the promise                                   *)
(*   settleCalls  calls of resolve or reject so far                        *)
(*   killSignals  SIGTERM signals sent to the child                        *)
(*   firstTerminal  the terminal event that occurred first                 *)
(*   closeCode  the code the close event reported                          *)
(***************************************************************************)
VARIABLES wrapper, timeoutMs, completed, timer, child, stdout, stderr,
          outcome, settleCalls, killSignals, firstTerminal, closeCode

cliVars == <<wrapper, timeoutMs, completed, timer, child, stdout, stderr,
             outcome, settleCalls, killSignals, firstTerminal, closeCode>>

(***************************************************************************)
(* State of one call of a function of the program.                         *)
(*   call      the function called and its arguments                       *)
(*   ret       the value it returned                                       *)
(*   returned  the call has returned                                       *)
(***************************************************************************)
VARIABLES call, ret, returned

funVars == <<call, ret, returned>>

(***************************************************************************)
(* State of the server's routes and of a client that calls them.           *)
(*   wrappedCommand the command the server wraps, if it wraps one          *)
(*   consulted      the calls of the provider registry                     *)
(*   reply          the answer to the last GET request                     *)
(*   pushRegistry   the push tokens registered under each contact:thread   *)
(*   registered     the registrations accepted: contact id, thread id and  *)
(*                  token of each                                          *)
(*   scheduledJobs  the ids of the pending jobs                            *)
(*   dispatches     the async dispatches started, by id: the request, how  *)
(*                  far the dispatch is, what it pushed and how it ended   *)
(*   errorLog       what console.error has printed                         *)
(*   unhandled      errors thrown out of a timer callback                  *)
(*   turns          the chat turns the chat route has started              *)
(*   sent           the HTTP requests the client has sent                  *)
(*   lastRejected   the route (or client method) that rejected a request   *)
(*                  last                                                   *)
(*   nextJob        the identifiers the server's randomId has handed out   *)
(***************************************************************************)
VARIABLES wrappedCommand, consulted, reply, pushRegistry, registered, scheduledJobs,
          dispatches, errorLog, unhandled, turns, sent, lastRejected, nextJob

srvVars == <<wrappedCommand, consulted, reply, pushRegistry, registered, scheduledJobs,
             dispatches, errorLog, unhandled, turns, sent, lastRejected, nextJob>>

(***************************************************************************)
(* The arrays a chat turn is given and the arrays of the configuration:    *)
(*   arrays     the content of each array, by the reference that holds it  *)
(*   wrappedStdin  wrappedCommand.stdin                                    *)
(*   spawned    per turn, its prompt and the argument list it handed on    *)
(***************************************************************************)
VARIABLES arrays, wrappedStdin, spawned

memVars == <<arrays, wrappedStdin, spawned>>

(***************************************************************************)
(* The chat clients (the CLI app and the mobile app) and their store:      *)
(*   threads    the stored threads: per thread id its messages (the file   *)
(*              threads.json of the CLI, the threads state of the app)     *)
(*   sending    the sendMessage call in progress: where it stands, its     *)
(*              locals, the indicators it sets and what the stream did     *)
(*   storeOps   the store operations in flight, each with the threads it   *)
(*              loaded and has not saved yet                               *)
(***************************************************************************)
VARIABLES threads, sending, storeOps

appVars == <<threads, sending, storeOps>>

vars == <<sseVars, streamVars, cliVars, funVars, srvVars, memVars, appVars>>

\* the variables a machine leaves alone: those of the other machines
restOfSse == <<streamVars, cliVars, funVars, srvVars, memVars, appVars>>

restOfStream == <<sseVars, cliVars, funVars, srvVars, memVars, appVars>>

restOfCli == <<sseVars, streamVars, funVars, srvVars, memVars, appVars>>

restOfFun == <<sseVars, streamVars, cliVars, srvVars, memVars, appVars>>

restOfSrv == <<sseVars, streamVars, cliVars, funVars, memVars, appVars>>

restOfMem == <<sseVars, streamVars, cliVars, funVars, srvVars, appVars>>

restOfApp == <<sseVars, streamVars, cliVars, funVars, srvVars, memVars>>

NoFailure == [thrown |-> FALSE, isError |-> FALSE, message |-> <<>>]

\* the server wraps no command (wrappedCommand is null)
NoWrappedCommand == [command |-> <<>>, inferredKind |-> "none"]

\* no GET request was answered
NoReply == [route |-> "none", status |-> "none", body |-> <<>>]

\* no HTTP response has arrived
NoResponse == [ok |-> FALSE, status |-> "none", type |-> "none", body |-> JNull, text |-> <<>>]

Pending ==
    [state |-> "pending", message |-> <<>>, stdout |-> <<>>, stderr |-> <<>>,
     exitCode |-> "none"]

SseIdle ==
    /\ input = [events |-> <<>>, encoded |-> FALSE, payloads |-> <<>>,
                crlf |-> FALSE, cut |-> 0]
    /\ wire = <<>> /\ cbuf = <<>> /\ cout = <<>> /\ rbuf = <<>> /\ rout = <<>>
    /\ tout = <<>> /\ srcDone = FALSE

StreamIdle ==
    /\ gen = "none" /\ pc = "idle" /\ msgId = "" /\ genText = <<>> /\ queue = <<>>
    /\ produced = <<>> /\ written = <<>> /\ failure = NoFailure
    /\ closed = FALSE /\ nextId = 0
    /\ response = NoResponse /\ requests = 0

CliIdle ==
    /\ wrapper = "none" /\ timeoutMs = 0 /\ completed = FALSE /\ timer = "none"
    /\ child = "none" /\ stdout = <<>> /\ stderr = <<>> /\ outcome = Pending
    /\ settleCalls = 0 /\ killSignals = 0 /\ firstTerminal = "none"
    /\ closeCode = "none"

\* one machine runs at a time; the others stay as constructed
FunIdle == call = [fn |-> "none"] /\ ret = <<>> /\ returned = FALSE

SrvIdle ==
    /\ consulted = {} /\ reply = NoReply
    /\ pushRegistry = <<>> /\ registered = {}
    /\ scheduledJobs = {} /\ dispatches = <<>>
    /\ errorLog = {} /\ unhandled = 0
    /\ turns = <<>> /\ sent = <<>> /\ lastRejected = "none" /\ nextJob = 0

MemIdle == arrays = <<>> /\ wrappedStdin = FALSE /\ spawned = <<>>

AppIdle == threads = <<>> /\ sending = [pc |-> "idle"] /\ storeOps = <<>>

OnlySse ==
    StreamIdle /\ CliIdle /\ FunIdle /\ SrvIdle /\ MemIdle /\ AppIdle /\ wrappedCommand = NoWrappedCommand

OnlyStream ==
    SseIdle /\ CliIdle /\ FunIdle /\ SrvIdle /\ MemIdle /\ AppIdle /\ wrappedCommand = NoWrappedCommand

OnlyCli ==
    SseIdle /\ StreamIdle /\ FunIdle /\ SrvIdle /\ MemIdle /\ AppIdle /\ wrappedCommand = NoWrappedCommand

OnlyFun ==
    SseIdle /\ StreamIdle /\ CliIdle /\ SrvIdle /\ MemIdle /\ AppIdle /\ wrappedCommand = NoWrappedCommand

OnlySrv == SseIdle /\ StreamIdle /\ CliIdle /\ FunIdle /\ MemIdle /\ AppIdle

OnlyMem ==
    SseIdle /\ StreamIdle /\ CliIdle /\ FunIdle /\ SrvIdle /\ AppIdle
    /\ wrappedCommand = NoWrappedCommand

OnlyApp ==
    SseIdle /\ StreamIdle /\ CliIdle /\ FunIdle /\ SrvIdle /\ MemIdle
    /\ wrappedCommand = NoWrappedCommand

RECURSIVE SeqsUpTo(_, _)
SeqsUpTo(S, n) ==
    IF n = 0 THEN {<<>>}
    ELSE LET shorter == SeqsUpTo(S, n - 1)
         IN  shorter \cup {Append(q, x) : q \in {r \in shorter : Len(r) = n - 1}, x \in S}

RECURSIVE MapStringify(_)
MapStringify(events) ==
    IF events = <<>> THEN <<>>
    ELSE <<JsonStringify(Head(events))>> \o MapStringify(Tail(events))

RECURSIVE EncodeFrames(_)
EncodeFrames(payloads) ==
    IF payloads = <<>> THEN <<>>
    ELSE writeSSE(Head(payloads)) \o EncodeFrames(Tail(payloads))

\* a transport that rewrites line terminators as CR LF
ToCRLF(s) ==
    Flatten([k \in 1..Len(s) |-> IF s[k] = LF THEN <<CR, LF>> ELSE <<s[k]>>],
            1, Len(s))

\* the bytes of a stream: the frames, the last one cut short of its blank
\* line by `cut` line feeds
WireOf(in) ==
    LET frames == EncodeFrames(in.payloads)
        kept   == Take(frames, Len(frames) - in.cut)
    IN  IF in.crlf THEN ToCRLF(kept) ELSE kept

\* valid StreamEvents, one or more of every variant
EventUniverse ==
    { MessageStartEvent("m1", "t1"),
      TokenEvent(<<LF, LF>>),
      TokenEvent(<<CR, LF, QUOTE>>),
      TypingEvent(TRUE),
      AttachmentEvent("file", "f"),
      MessageEndEvent("m1", <<BSL, "n", SP>>),
      ErrorEvent("provider_error", <<"[DONE]">>, FALSE) }

\* payloads a remote endpoint may send
PayloadUniverse ==
    { JsonStringify(TokenEvent(<<"a">>)),
      DoneMarker,
      JsonStringify(JObj([text |-> JAtom("hi")])),
      JsonStringify(JObj([token |-> JAtom("tk")])),
      JsonStringify(JObj([text |-> JNum("1"), token |-> JAtom("tk")])),
      JsonStringify(JObj([foo |-> JAtom("x")])),
      JsonStringify(JObj([type |-> JAtom("token")])),
      <<"hello">>,
      <<"7">> }

SseStart(in) ==
    /\ input = in
    /\ wire = WireOf(in)
    /\ cbuf = <<>> /\ cout = <<>>
    /\ rbuf = <<>> /\ rout = <<>>
    /\ tout = <<>>
    /\ srcDone = FALSE
    /\ OnlySse

\* the decoders are given what the SSE encoder wrote for a sequence of events
InitRoundTrip ==
    \E events \in SeqsUpTo(EventUniverse, MaxEvents), done \in BOOLEAN, crlf \in BOOLEAN :
        LET in == [events |-> events, encoded |-> TRUE,
                   payloads |-> MapStringify(events)
                                \o (IF done THEN <<DoneMarker>> ELSE <<>>),
                   crlf |-> crlf, cut |-> 0]
        IN  Len(WireOf(in)) <= MaxWire /\ SseStart(in)

\* the decoders are given an arbitrary stream of frames
InitDecode ==
    \E payloads \in SeqsUpTo(PayloadUniverse, MaxFrames) \ {<<>>},
       crlf \in BOOLEAN, cut \in 0..2 :
        LET in == [events |-> <<>>, encoded |-> FALSE, payloads |-> payloads,
                   crlf |-> crlf, cut |-> cut]
        IN  Len(WireOf(in)) <= MaxStream /\ SseStart(in)

\* reader.read() returns the next n bytes; both decoders run their loop body
ReadChunk(n) ==
    /\ ~srcDone
    /\ n \in 1..Len(wire)
    /\ LET chunk == Take(wire, n)
           c == ClientDrain(cbuf \o chunk, <<>>)
           r == RemoteDrain(rbuf \o chunk, <<>>)
       IN  /\ wire' = Drop(wire, n)
           /\ cbuf' = c.buffer
           /\ cout' = cout \o ClientDecodeAll(c.items)
           /\ rbuf' = r.buffer
           /\ rout' = rout \o r.events
    /\ UNCHANGED <<input, tout, srcDone, restOfSse>>

\* reader.read() returns done: parseSseData flushes its buffer, parseSseEvents
\* returns; the body-less path of parseSseData decodes the whole text at once
ClientFlush(buf) == ClientDecodeAll(parseSsePayloadFromText(buf))

RemoteFlush(buf) == <<>>

EndOfStream ==
    /\ ~srcDone
    /\ wire = <<>>
    /\ srcDone' = TRUE
    /\ cout' = cout \o ClientFlush(cbuf)
    /\ rout' = rout \o RemoteFlush(rbuf)
    /\ tout' = ClientDecodeAll(parseSsePayloadFromText(WireOf(input)))
    /\ cbuf' = <<>>
    /\ UNCHANGED <<input, wire, rbuf, restOfSse>>

NextSse ==
    \/ \E n \in 1..Len(wire) : ReadChunk(n)
    \/ EndOfStream

SpecRoundTrip == InitRoundTrip /\ [][NextSse]_vars

SpecDecode == InitDecode /\ [][NextSse]_vars

(***************************************************************************)
(* Claims about the SSE encoder and decoders.                              *)
(***************************************************************************)
\* what remains unread is a suffix of the stream: the byte just read
Consumed == Len(WireOf(input)) - Len(wire)

LastRead == WireOf(input)[Consumed]

RECURSIVE NotDone(_)
NotDone(payloads) ==
    IF payloads = <<>> THEN <<>>
    ELSE (IF Head(payloads) = DoneMarker THEN <<>> ELSE <<Head(payloads)>>)
         \o NotDone(Tail(payloads))

\* C5: SSE round trip.  Once the byte source has ended, each decoder (the
\* client's chatStream over parseSseData, its body-less path, and the remote
\* adapter's parseSseEvents) has yielded exactly the events the encoder was
\* given, in order, and nothing for [DONE], whatever the chunks were.
C5_RoundTrip ==
    (srcDone /\ input.encoded) =>
        /\ cout = input.events
        /\ tout = input.events
        /\ rout = input.events

\* C5 witness: two events were encoded; the first has been decoded and the
\* last chunk ended inside the CR LF pair of a line terminator
C5_Witness ==
    /\ input.encoded /\ input.crlf /\ Len(input.events) = 2
    /\ ~srcDone /\ wire # <<>> /\ Consumed > 0
    /\ LastRead = CR /\ Head(wire) = LF
    /\ cout = <<input.events[1]>> /\ rout = <<input.events[1]>>
    /\ cbuf # <<>>

\* C6: of the frames a decoder received in full, every payload other than
\* [DONE] gave exactly one event
C6_NoPayloadDropped ==
    (srcDone /\ input.cut = 0) =>
        /\ Len(cout) = Len(NotDone(input.payloads))
        /\ Len(rout) = Len(NotDone(input.payloads))

\* C7: after the byte source ends the buffered bytes are decoded as a frame:
\* the events are those of the same payloads, whether or not the last frame
\* was terminated by a blank line
C7_TrailingFrameDecoded ==
    srcDone =>
        /\ cout = ClientDecodeAll(input.payloads)
        /\ rout = RemoteDecodeAll(input.payloads)

\* a payload that is JSON, is not a StreamEvent and has a string text or
\* token member
IsLoose(payload) ==
    LET json == JsonParse(payload)
    IN  /\ json.ok
        /\ ~StreamEventSchema(json.val).success
        /\ (HasString(json.val, "text") \/ HasString(json.val, "token"))

LooseText(payload) ==
    LET json == JsonParse(payload)
    IN  IF HasString(json.val, "text") THEN json.val.o.text.s ELSE json.val.o.token.s

RECURSIVE LooseTokens(_)
LooseTokens(payloads) ==
    IF payloads = <<>> THEN <<>>
    ELSE <<TokenEvent(LooseText(Head(payloads)))>> \o LooseTokens(Tail(payloads))

\* C8: payloads that are JSON but no StreamEvent, with a string text member
\* (or, failing that, a string token member), are decoded as token events
\* carrying that member's value
C8_LooseTextBecomesToken ==
    (srcDone /\ input.cut = 0 /\ \A i \in 1..Len(input.payloads) : IsLoose(input.payloads[i])) =>
        /\ cout = LooseTokens(input.payloads)
        /\ rout = LooseTokens(input.payloads)

(***************************************************************************)
(* One chat turn: the generators that produce its events, and the SSE      *)
(* encoder of POST /v1/chat.stream that writes them to the response.       *)
(***************************************************************************)
RemoteKinds == {"openclaw", "pi-mono"}

CliKinds == {"terminal-cli", "claude-code-cli", "openclaw-cli", "nanoclaw-cli"}

WrappedCommand == "wrapped-command"

ChatStreamFallback == "chatStream-fallback"

\* runProviderStream serves a request with the wrapped command or with the
\* adapter the registry holds for the contact's kind
ServerGenerators == {WrappedCommand} \cup ProviderKindSchema

Generators == ServerGenerators \cup {ChatStreamFallback}

ThreadId == "t1"

\* text deltas of the hosted model
Deltas == {<<"a">>, <<"b", LF>>}

\* texts a command run resolves to
Outputs ==
    {<<>>, <<"a">>, <<"a", LF, "b">>, <<"a", CR, LF, LF, "b">>,
     <<"a", SP, "b">>, <<"a", LF, SP, LF, "b", LF, "c">>}

NonEmpty(line) == Len(line) > 0

RECURSIVE WithNewlines(_, _)
WithNewlines(lines, lastToo) ==
    IF lines = <<>> THEN <<>>
    ELSE <<(IF Len(lines) > 1 \/ lastToo THEN Head(lines) \o <<LF>> ELSE Head(lines))>>
         \o WithNewlines(Tail(lines), lastToo)

\* the token texts of runWrappedCommandStream
WrappedTokens(output) ==
    IF Len(output) > 0
    THEN WithNewlines(SelectSeq(SplitLines(output), NonEmpty), TRUE)
    ELSE <<>>

\* mutant: every chunk ends with a newline, the last one too
chunkTextAllNewlines(t) ==
    LET trimmed == Trim(t)
        lines == SelectSeq(SplitLines(trimmed), NonEmpty)
    IN  IF trimmed = <<>> THEN <<>>
        ELSE IF Len(lines) <= 1 THEN <<trimmed>>
        ELSE WithNewlines(lines, TRUE)

chunkText(t) ==
    LET trimmed == Trim(t)
        lines == SelectSeq(SplitLines(trimmed), NonEmpty)
    IN  IF trimmed = <<>> THEN <<>>
        ELSE IF Len(lines) <= 1 THEN <<trimmed>>
        ELSE WithNewlines(lines, FALSE)

\* the body of a successful non-event-stream response of a remote provider
RemoteBodies ==
    { JObj([text |-> JAtom("hi"), message |-> JAtom("m")]),
      JObj([message |-> JAtom("m"), output |-> JAtom("o")]),
      JObj([output |-> JAtom("o")]),
      JObj([text |-> JStr(<<>>), message |-> JAtom("m")]),
      JObj([foo |-> JAtom("x")]) }

\* streamRemoteProvider: the first present of text, message, output
RemoteBodyText(body) ==
    IF HasString(body, "text") THEN body.o.text.s
    ELSE IF HasString(body, "message") THEN body.o.message.s
    ELSE IF HasString(body, "output") THEN body.o.output.s
    ELSE <<>>

\* chatStream: the text member of the fallback payload
FallbackBodyText(body) == IF HasString(body, "text") THEN body.o.text.s ELSE <<>>

\* the event sequences a remote endpoint that follows the protocol streams
RemoteScripts ==
    { <<MessageStartEvent("r1", ThreadId), TokenEvent(<<"a">>), MessageEndEvent("r1", <<"a">>)>>,
      <<MessageStartEvent("r1", ThreadId), MessageEndEvent("r1", <<>>)>> }

Error(message) == [thrown |-> TRUE, isError |-> TRUE, message |-> message]

\* statuses and bodies of responses that are not ok
FailureStatuses == {"404", "500"}

ResponseTexts == {<<>>, <<"oops">>, <<SP, "bad", SP, QUOTE, "x", QUOTE, LF>>}

\* mutant: the response text is trimmed before it goes into the message
RequestFailedTrimmed(g, status, responseText) ==
    (IF g = ChatStreamFallback
     THEN <<"chat.stream failed (", status, "): ">>
     ELSE <<"Remote provider request failed (", status, "): ">>) \o Trim(responseText)

\* `Remote provider request failed (${response.status}): ${responseText}` and
\* `chat.stream failed (${response.status}): ${bodyText}`
RequestFailed(g, status, responseText) ==
    (IF g = ChatStreamFallback
     THEN <<"chat.stream failed (", status, "): ">>
     ELSE <<"Remote provider request failed (", status, "): ">>) \o responseText

\* the errors a generator can throw where it is suspended; the message of an
\* error of the model library is any string, the empty one too
Throwable(g, at) ==
    IF g = WrappedCommand /\ at = "run"
    THEN {<<"Wrapped command ", "timed out after ", "180000", "ms">>,
          <<"spawn ENOENT">>, <<"boom">>}
    ELSE IF g \in CliKinds /\ at = "run"
    THEN {<<"CLI command ", "timed out after ", "180000", "ms", ": ", "cmd">>,
          <<"spawn ENOENT">>, <<g, " command failed: ", "boom">>}
         \cup (IF g = "nanoclaw-cli"
               THEN {<<g, " requires provider.extra.command.">>} ELSE {})
    ELSE IF g = "ai-sdk" /\ at = "run" THEN {<<"model error">>, <<>>}
    ELSE IF g \in RemoteKinds /\ at = "fetch"
    THEN {<<"fetch failed">>, <<"Unexpected token">>}
    ELSE IF g \in RemoteKinds /\ at = "sse" THEN {<<"terminated">>}
    ELSE IF g = ChatStreamFallback /\ at = "fetch"
    THEN {<<"fetch failed">>, <<"Unexpected token">>}
    ELSE {}

\* mutant: the final [DONE] write sits after the try/catch
CatchFramesThenDone(error) ==
    <<JsonStringify(ErrorEvent("provider_error",
                               IF error.isError THEN error.message
                               ELSE <<"Unknown provider error">>,
                               FALSE)),
      DoneMarker>>

\* mutant: the catch block also writes that typing has ended
CatchFramesTypingOff(error) ==
    <<JsonStringify(ErrorEvent("provider_error",
                               IF error.isError THEN error.message
                               ELSE <<"Unknown provider error">>,
                               FALSE)),
      JsonStringify(TypingEvent(FALSE))>>

\* the catch block of the chat route: the frames it writes for an error
CatchFrames(error) ==
    <<JsonStringify(ErrorEvent("provider_error",
                               IF error.isError THEN error.message
                               ELSE <<"Unknown provider error">>,
                               FALSE))>>

\* the frames the chat route writes once the for-await loop has ended
CompleteFrames == <<DoneMarker>>

\* mutant: the [DONE] write sits inside the loop
EventFramesThenDone(event) == <<JsonStringify(event), DoneMarker>>

\* the frames the chat route writes for one event of the loop
EventFrames(event) == <<JsonStringify(event)>>

randomId(n) == ToString(n + 1)

\* where a generator goes once its message_start is out
AfterTokens(g, q) ==
    IF q # <<>> THEN "tokens"
    ELSE IF g \in RemoteKinds \cup {ChatStreamFallback} THEN "message_end"
    ELSE "typing_off"

InitStream ==
    /\ gen \in Generators
    /\ pc = (IF gen \in RemoteKinds \cup {ChatStreamFallback} THEN "fetch"
             ELSE "message_start")
    /\ msgId = "" /\ genText = <<>> /\ queue = <<>>
    /\ produced = <<>> /\ written = <<>> /\ failure = NoFailure
    /\ closed = FALSE /\ nextId = 0
    /\ response = NoResponse /\ requests = 0
    /\ OnlyStream

\* one turn of the for-await loop: the generator yields `event` and, on the
\* server, the loop body writes it
Yield(event) ==
    /\ produced' = Append(produced, event)
    /\ written' = IF gen \in ServerGenerators THEN written \o EventFrames(event)
                  ELSE written

YieldMessageStart ==
    /\ ~closed /\ pc = "message_start"
    /\ msgId' = randomId(nextId)
    /\ nextId' = nextId + 1
    /\ Yield(MessageStartEvent(randomId(nextId), ThreadId))
    /\ pc' = (IF gen \in RemoteKinds \cup {ChatStreamFallback}
              THEN AfterTokens(gen, queue) ELSE "typing_on")
    /\ UNCHANGED <<restOfStream, response, requests, gen, genText, queue, failure, closed>>

YieldTypingOn ==
    /\ ~closed /\ pc = "typing_on"
    /\ Yield(TypingEvent(TRUE))
    /\ pc' = "run"
    /\ UNCHANGED <<restOfStream, response, requests, gen, msgId, genText, queue, failure, closed, nextId>>

\* runWrappedCommandPrompt resolves
WrappedCommandResolves(output) ==
    /\ ~closed /\ pc = "run" /\ gen = WrappedCommand
    /\ genText' = output
    /\ queue' = WrappedTokens(output)
    /\ pc' = AfterTokens(gen, WrappedTokens(output))
    /\ UNCHANGED <<restOfStream, response, requests, gen, msgId, produced, written, failure, closed, nextId>>

\* runCliCommand resolves with exit code 0 and the output is normalized
CliCommandSucceeds(output) ==
    /\ ~closed /\ pc = "run" /\ gen \in CliKinds
    /\ genText' = output
    /\ queue' = chunkText(output)
    /\ pc' = AfterTokens(gen, chunkText(output))
    /\ UNCHANGED <<restOfStream, response, requests, gen, msgId, produced, written, failure, closed, nextId>>

\* the hosted model streams one more delta
YieldDelta(delta) ==
    /\ ~closed /\ pc = "run" /\ gen = "ai-sdk"
    /\ Len(SelectSeq(produced, LAMBDA e : EventType(e) = "token")) < MaxDeltas
    /\ genText' = genText \o delta
    /\ Yield(TokenEvent(delta))
    /\ UNCHANGED <<restOfStream, response, requests, gen, pc, msgId, queue, failure, closed, nextId>>

\* the hosted model's text stream ends
TextStreamEnds ==
    /\ ~closed /\ pc = "run" /\ gen = "ai-sdk"
    /\ pc' = "typing_off"
    /\ UNCHANGED <<restOfStream, response, requests, gen, msgId, genText, queue, produced, written, failure, closed, nextId>>

YieldToken ==
    /\ ~closed /\ pc = "tokens" /\ queue # <<>>
    /\ Yield(TokenEvent(Head(queue)))
    /\ queue' = Tail(queue)
    /\ pc' = AfterTokens(gen, Tail(queue))
    /\ UNCHANGED <<restOfStream, response, requests, gen, msgId, genText, failure, closed, nextId>>

YieldTypingOff ==
    /\ ~closed /\ pc = "typing_off"
    /\ Yield(TypingEvent(FALSE))
    /\ pc' = "message_end"
    /\ UNCHANGED <<restOfStream, response, requests, gen, msgId, genText, queue, failure, closed, nextId>>

\* chatStream's fallback envelope calls randomId again for message_end
YieldMessageEnd ==
    /\ ~closed /\ pc = "message_end"
    /\ IF gen = ChatStreamFallback
       THEN /\ Yield(MessageEndEvent(randomId(nextId), genText))
            /\ nextId' = nextId + 1
       ELSE /\ Yield(MessageEndEvent(msgId, genText))
            /\ nextId' = nextId
    /\ pc' = "returned"
    /\ UNCHANGED <<restOfStream, response, requests, gen, msgId, genText, queue, failure, closed>>

\* the response is an event stream (remote adapter) or carries an events
\* array (chatStream): its events are passed through one by one
ResponseEvents(script) ==
    /\ ~closed /\ pc = "fetch"
    /\ response' = [ok |-> TRUE, status |-> "200", type |-> "events",
                    body |-> JNull, text |-> <<>>]
    /\ requests' = requests + 1
    /\ queue' = script
    /\ pc' = "sse"
    /\ UNCHANGED <<restOfStream, gen, msgId, genText, produced, written, failure, closed, nextId>>

YieldPassedThrough ==
    /\ ~closed /\ pc = "sse" /\ queue # <<>>
    /\ Yield(Head(queue))
    /\ queue' = Tail(queue)
    /\ UNCHANGED <<restOfStream, response, requests, gen, pc, msgId, genText, failure, closed, nextId>>

PassThroughEnds ==
    /\ ~closed /\ pc = "sse" /\ queue = <<>>
    /\ pc' = "returned"
    /\ UNCHANGED <<restOfStream, response, requests, gen, msgId, genText, queue, produced, written, failure, closed, nextId>>

\* the response is one JSON body: the envelope of three events
ResponseJson(body) ==
    /\ ~closed /\ pc = "fetch"
    /\ response' = [ok |-> TRUE, status |-> "200", type |-> "json",
                    body |-> body, text |-> <<>>]
    /\ requests' = requests + 1
    /\ LET t == IF gen = ChatStreamFallback THEN FallbackBodyText(body)
                ELSE RemoteBodyText(body)
       IN  /\ genText' = t
           /\ queue' = IF gen = ChatStreamFallback \/ Len(t) > 0 THEN <<t>> ELSE <<>>
    /\ pc' = "message_start"
    /\ UNCHANGED <<restOfStream, gen, msgId, produced, written, failure, closed, nextId>>

\* the response has a non-success status: the adapter (or the client) reads
\* its text and throws; on the server the catch block of the route runs
ResponseNotOk(status, responseText) ==
    /\ ~closed /\ pc = "fetch"
    /\ response' = [ok |-> FALSE, status |-> status, type |-> "text",
                    body |-> JNull, text |-> responseText]
    /\ requests' = requests + 1
    /\ failure' = Error(RequestFailed(gen, status, responseText))
    /\ written' = IF gen \in ServerGenerators
                  THEN written \o CatchFrames(Error(RequestFailed(gen, status, responseText)))
                  ELSE written
    /\ closed' = TRUE
    /\ UNCHANGED <<restOfStream, gen, pc, msgId, genText, queue, produced, nextId>>

\* the generator throws; on the server the catch block of the route runs
Throw(message) ==
    /\ ~closed /\ message \in Throwable(gen, pc)
    /\ failure' = Error(message)
    /\ written' = IF gen \in ServerGenerators THEN written \o CatchFrames(Error(message))
                  ELSE written
    /\ closed' = TRUE
    /\ requests' = IF pc = "fetch" THEN requests + 1 ELSE requests
    /\ UNCHANGED <<restOfStream, response, gen, pc, msgId, genText, queue, produced, nextId>>

\* the generator returns; on the server the route writes [DONE]
Complete ==
    /\ ~closed /\ pc = "returned"
    /\ written' = IF gen \in ServerGenerators THEN written \o CompleteFrames ELSE written
    /\ closed' = TRUE
    /\ UNCHANGED <<restOfStream, response, requests, gen, pc, msgId, genText, queue, produced, failure, nextId>>

NextStream ==
    \/ YieldMessageStart
    \/ YieldTypingOn
    \/ \E output \in Outputs : WrappedCommandResolves(output)
    \/ \E output \in Outputs : CliCommandSucceeds(output)
    \/ \E delta \in Deltas : YieldDelta(delta)
    \/ TextStreamEnds
    \/ YieldToken
    \/ YieldTypingOff
    \/ YieldMessageEnd
    \/ \E script \in RemoteScripts : ResponseEvents(script)
    \/ YieldPassedThrough
    \/ PassThroughEnds
    \/ \E body \in RemoteBodies : ResponseJson(body)
    \/ \E status \in FailureStatuses, responseText \in ResponseTexts :
          ResponseNotOk(status, responseText)
    \/ \E message \in Throwable(gen, pc) : Throw(message)
    \/ Complete

SpecStream == InitStream /\ [][NextStream]_vars

(***************************************************************************)
(* Claims about the event sequence of a turn and the SSE encoder.          *)
(***************************************************************************)
\* the typed events written to the response: every frame but [DONE]
RECURSIVE TypedEvents(_)
TypedEvents(frames) ==
    IF frames = <<>> THEN <<>>
    ELSE (IF Head(frames) = DoneMarker THEN <<>> ELSE <<JsonParse(Head(frames)).val>>)
         \o TypedEvents(Tail(frames))

Closing == {"message_end", "error"}

\* C1: once the chat route has finished a request, the typed events it wrote
\* start with message_start and end with exactly one of message_end / error
C1_StartsAndEndsOnce ==
    (closed /\ gen \in ServerGenerators) =>
        LET ev == TypedEvents(written)
        IN  /\ Len(ev) >= 1
            /\ EventType(ev[1]) = "message_start"
            /\ EventType(ev[Len(ev)]) \in Closing
            /\ Cardinality({i \in 1..Len(ev) : EventType(ev[i]) \in Closing}) = 1

\* C2: in the events of a turn, the messageId of a message_end is the
\* messageId of the message_start
C2_MessageIdsMatch ==
    \A i, j \in 1..Len(produced) :
        (EventType(produced[i]) = "message_start" /\ EventType(produced[j]) = "message_end")
            => produced[j].o.messageId = produced[i].o.messageId

\* C3: when the provider's sequence fails, the response holds the frames of
\* the events produced before the failure, then one error event with code
\* provider_error, retryable false and the failure's text, and nothing more
\* (no [DONE])
C3_ErrorFrameOnFailure ==
    (closed /\ failure.thrown /\ gen \in ServerGenerators) =>
        written = MapStringify(produced)
                  \o <<JsonStringify(ErrorEvent("provider_error", failure.message, FALSE))>>

\* C3 witness: a server-side turn failed after it had produced events
C3_Witness ==
    /\ closed /\ failure.thrown /\ gen \in ServerGenerators
    /\ Len(produced) >= 2
    /\ Len(written) = Len(produced) + 1

\* C4: while the provider's sequence runs the response holds one frame per
\* event, in order, and no [DONE]; when it has completed normally the
\* response holds those frames followed by exactly one [DONE]
C4_DoneAfterLastEvent ==
    (gen \in ServerGenerators) =>
        /\ (~closed => written = MapStringify(produced))
        /\ ((closed /\ ~failure.thrown) =>
                written = MapStringify(produced) \o <<DoneMarker>>)

\* C4 witness: a server-side turn completed normally after several events
C4_Witness ==
    /\ closed /\ ~failure.thrown /\ gen \in ServerGenerators
    /\ Len(produced) >= 4
    /\ written[Len(written)] = DoneMarker

(***************************************************************************)
(* The CLI process wrapper: runCliCommand of the provider SDK and          *)
(* runWrappedCommandPrompt of the server.  The promise executor spawns the *)
(* child, arms the timer and registers the handlers; each action below is  *)
(* one callback of the event loop.                                         *)
(***************************************************************************)
DEFAULT_CLI_TIMEOUT_MS == 180000

RunCliCommand == "runCliCommand"

RunWrappedCommandPrompt == "runWrappedCommandPrompt"

Wrappers == {RunCliCommand, RunWrappedCommandPrompt}

TimeoutValues == {250, DEFAULT_CLI_TIMEOUT_MS}

Command == "cmd"

StdoutChunks == {<<"out">>, <<LF>>}

StderrChunks == {<<"boom">>, <<LF>>}

\* the code a close event reports: null when a signal ended the process
ExitCodes == {"0", "1", "null"}

SpawnError == <<"spawn ", Command, " ENOENT">>

TimedOutMessage(w, ms) ==
    IF w = RunCliCommand
    THEN <<"CLI command ", "timed out after ", ToString(ms), "ms", ": ", Command>>
    ELSE <<"Wrapped command ", "timed out after ", ToString(ms), "ms">>

Resolved(message, out, err, code) ==
    [state |-> "resolved", message |-> message, stdout |-> out, stderr |-> err,
     exitCode |-> code]

Rejected(message) ==
    [state |-> "rejected", message |-> message, stdout |-> <<>>, stderr |-> <<>>,
     exitCode |-> "none"]

\* what the close handler settles the promise with (wrappedCommand.parse is
\* "text" in the runs of the wrapper)
CloseOutcome(w, code, out, err) ==
    LET exitCode == IF code = "null" THEN "0" ELSE code
    IN  IF w = RunCliCommand THEN Resolved(<<>>, out, err, exitCode)
        ELSE IF exitCode # "0"
             THEN Rejected(IF Trim(err) # <<>> THEN Trim(err)
                           ELSE IF Trim(out) # <<>> THEN Trim(out)
                           ELSE <<"exit code ", code>>)
             ELSE Resolved(normalizeWrappedOutput(out, err, "text"), <<>>, <<>>, "none")

\* resolve(...) or reject(...): a promise keeps its first settlement
Settle(o) ==
    /\ settleCalls' = settleCalls + 1
    /\ outcome' = IF outcome.state = "pending" THEN o ELSE outcome

\* mutant: the handlers leave the timer armed
ClearTimeoutForgotten == timer' = timer

\* clearTimeout(timer)
ClearTimeout == timer' = IF timer = "armed" THEN "cleared" ELSE timer

First(event) == firstTerminal' = IF firstTerminal = "none" THEN event ELSE firstTerminal

InitCli ==
    /\ wrapper \in Wrappers
    /\ timeoutMs \in TimeoutValues
    /\ completed = FALSE
    /\ timer = "armed"
    /\ child = "running"
    /\ stdout = <<>> /\ stderr = <<>>
    /\ outcome = Pending
    /\ settleCalls = 0 /\ killSignals = 0 /\ firstTerminal = "none"
    /\ closeCode = "none"
    /\ OnlyCli

\* child.stdout.on("data")
StdoutData(chunk) ==
    /\ child = "running" /\ Len(stdout) < MaxOutput
    /\ stdout' = stdout \o chunk
    /\ UNCHANGED <<restOfCli, closeCode, wrapper, timeoutMs, completed, timer, child,
                   stderr, outcome, settleCalls, killSignals, firstTerminal>>

\* child.stderr.on("data")
StderrData(chunk) ==
    /\ child = "running" /\ Len(stderr) < MaxOutput
    /\ stderr' = stderr \o chunk
    /\ UNCHANGED <<restOfCli, closeCode, wrapper, timeoutMs, completed, timer, child,
                   stdout, outcome, settleCalls, killSignals, firstTerminal>>

\* mutant: the timer callback kills the child and leaves the promise alone
TimerFiresNoReject ==
    /\ timer = "armed"
    /\ timer' = "fired"
    /\ First("timeout")
    /\ IF completed
       THEN UNCHANGED <<completed, outcome, settleCalls, killSignals>>
       ELSE /\ completed' = TRUE
            /\ killSignals' = killSignals + 1
            /\ UNCHANGED <<outcome, settleCalls>>
    /\ UNCHANGED <<restOfCli, closeCode, wrapper, timeoutMs, child, stdout, stderr>>

\* the setTimeout callback
TimerFires ==
    /\ timer = "armed"
    /\ timer' = "fired"
    /\ First("timeout")
    /\ IF completed
       THEN UNCHANGED <<completed, outcome, settleCalls, killSignals>>
       ELSE /\ completed' = TRUE
            /\ killSignals' = killSignals + 1
            /\ Settle(Rejected(TimedOutMessage(wrapper, timeoutMs)))
    /\ UNCHANGED <<restOfCli, closeCode, wrapper, timeoutMs, child, stdout, stderr>>

\* child.on("error"): the process could not be spawned
ChildError ==
    /\ child = "running"
    /\ child' = "errored"
    /\ First("error")
    /\ IF completed
       THEN UNCHANGED <<completed, timer, outcome, settleCalls>>
       ELSE /\ completed' = TRUE
            /\ ClearTimeout
            /\ Settle(Rejected(SpawnError))
    /\ UNCHANGED <<restOfCli, closeCode, wrapper, timeoutMs, stdout, stderr, killSignals>>

\* mutant: the close handler lacks the completed guard
ChildCloseUnguarded(code) ==
    /\ child \in {"running", "errored"}
    /\ child' = "closed"
    /\ closeCode' = code
    /\ First("close")
    /\ completed' = TRUE
    /\ ClearTimeout
    /\ Settle(CloseOutcome(wrapper, code, stdout, stderr))
    /\ UNCHANGED <<restOfCli, wrapper, timeoutMs, stdout, stderr, killSignals>>

\* child.on("close")
ChildClose(code) ==
    /\ child \in {"running", "errored"}
    /\ child' = "closed"
    /\ closeCode' = code
    /\ First("close")
    /\ IF completed
       THEN UNCHANGED <<completed, timer, outcome, settleCalls>>
       ELSE /\ completed' = TRUE
            /\ ClearTimeout
            /\ Settle(CloseOutcome(wrapper, code, stdout, stderr))
    /\ UNCHANGED <<restOfCli, wrapper, timeoutMs, stdout, stderr, killSignals>>

NextCli ==
    \/ \E chunk \in StdoutChunks : StdoutData(chunk)
    \/ \E chunk \in StderrChunks : StderrData(chunk)
    \/ TimerFires
    \/ ChildError
    \/ \E code \in ExitCodes : ChildClose(code)

\* an armed timer fires: the event loop runs the callback of a timer that
\* was not cleared
SpecCli == InitCli /\ [][NextCli]_vars /\ WF_vars(TimerFires)

(***************************************************************************)
(* Claims about the CLI process wrapper.                                   *)
(***************************************************************************)
Contains(s, p) == IndexOf(s, p) > 0

Settled == outcome.state # "pending"

\* C9: resolve / reject is called at most once, by the terminal event that
\* occurred first, and no later event changes the outcome
C9_CompletesOnce ==
    /\ [](/\ settleCalls <= 1
          /\ (settleCalls = 1) = (firstTerminal # "none")
          /\ completed = (firstTerminal # "none")
          /\ (firstTerminal = "timeout" =>
                outcome = Rejected(TimedOutMessage(wrapper, timeoutMs)))
          /\ (firstTerminal = "error" => outcome = Rejected(SpawnError))
          /\ (firstTerminal = "close" =>
                \E code \in ExitCodes :
                    outcome = CloseOutcome(wrapper, code, stdout, stderr)))
    /\ [][Settled => (outcome' = outcome /\ settleCalls' = settleCalls)]_vars

\* C9 witness: the timeout fired first and the process closed afterwards
C9_Witness ==
    /\ firstTerminal = "timeout" /\ timer = "fired" /\ child = "closed"
    /\ settleCalls = 1
    /\ outcome = Rejected(TimedOutMessage(wrapper, timeoutMs))

\* C10: when the timer fires before the process closed or failed to start,
\* the process is sent a termination signal and the wrapper fails with
\* "timed out after <ms>ms"; every invocation eventually completes
C10_TimeoutTerminates ==
    /\ [](firstTerminal = "timeout" =>
            /\ killSignals = 1
            /\ outcome.state = "rejected"
            /\ Contains(outcome.message, <<"timed out after ", ToString(timeoutMs), "ms">>))
    /\ <>Settled

\* C10 witness: the timer fired, the process was signalled and has not
\* exited, and the wrapper has failed
C10_Witness ==
    /\ firstTerminal = "timeout" /\ child = "running" /\ killSignals = 1
    /\ outcome.state = "rejected"

(***************************************************************************)
(* What a turn makes of a finished run of the process wrapper.             *)
(***************************************************************************)
\* result.stderr.trim() || result.stdout.trim() || `exit code ${result.exitCode}`
ExitErrorText(result) ==
    IF Trim(result.stderr) # <<>> THEN Trim(result.stderr)
    ELSE IF Trim(result.stdout) # <<>> THEN Trim(result.stdout)
    ELSE <<"exit code ", result.exitCode>>

\* the error CliWrappedProviderAdapter throws for a non-zero exit code
CommandFailed(kind, result) == <<kind, " command failed: ">> \o ExitErrorText(result)

\* the failure of the turn that awaited the wrapper: runWrappedCommandStream
\* lets the rejection through; the adapter of `kind` lets it through too and
\* throws on a non-zero exit code
TurnFailure(kind) ==
    IF outcome.state = "rejected" THEN Error(outcome.message)
    ELSE IF /\ wrapper = RunCliCommand
            /\ outcome.state = "resolved"
            /\ outcome.exitCode # "0"
         THEN Error(CommandFailed(kind, outcome))
    ELSE NoFailure

\* C11: when the process exited with a non-zero code the turn fails, and the
\* failure message is exactly the trimmed stderr, else the trimmed stdout,
\* else "exit code N"
C11_ExitFailureMessage ==
    (firstTerminal = "close" /\ closeCode \notin {"0", "null"}) =>
        \A kind \in CliKinds :
            TurnFailure(kind) =
                Error(IF Trim(stderr) # <<>> THEN Trim(stderr)
                      ELSE IF Trim(stdout) # <<>> THEN Trim(stdout)
                      ELSE <<"exit code ", closeCode>>)

(***************************************************************************)
(* CLI prompt substitution: applyPromptToArgs of the provider SDK and      *)
(* applyPrompt of the server.                                              *)
(***************************************************************************)
Placeholder == <<"{prompt}">>

DOLLAR == "$"

\* GetSubstitution of String.prototype.replaceAll for a string pattern:
\* $$ is a dollar sign, $& the match, $` the text before it, $' the text
\* after it; any other text stands for itself
RECURSIVE GetSubstitution(_, _, _, _)
GetSubstitution(matched, before, after, replacement) ==
    IF replacement = <<>> THEN <<>>
    ELSE IF Head(replacement) = DOLLAR /\ Len(replacement) >= 2
              /\ replacement[2] \in {DOLLAR, "&", "`", "'"}
         THEN (CASE replacement[2] = DOLLAR -> <<DOLLAR>>
                 [] replacement[2] = "&" -> matched
                 [] replacement[2] = "`" -> before
                 [] replacement[2] = "'" -> after)
              \o GetSubstitution(matched, before, after, Drop(replacement, 2))
         ELSE <<Head(replacement)>>
              \o GetSubstitution(matched, before, after, Tail(replacement))

\* String.prototype.replaceAll(pattern, replacement) from position `from` of s
RECURSIVE ReplaceAllFrom(_, _, _, _)
ReplaceAllFrom(s, pattern, replacement, from) ==
    LET i == IndexFrom(s, pattern, from)
    IN  IF i = 0 THEN SubSeq(s, from, Len(s))
        ELSE SubSeq(s, from, i - 1)
             \o GetSubstitution(pattern, Take(s, i - 1),
                                Drop(s, i + Len(pattern) - 1), replacement)
             \o ReplaceAllFrom(s, pattern, replacement, i + Len(pattern))

ReplaceAll(s, pattern, replacement) == ReplaceAllFrom(s, pattern, replacement, 1)

\* String.prototype.includes
Includes(s, p) == IndexOf(s, p) > 0

\* mutant: replace in place of replaceAll
MapPromptFirstOnly(args, prompt) ==
    [i \in 1..Len(args) |->
        IF Includes(args[i], Placeholder)
        THEN LET k == IndexOf(args[i], Placeholder)
             IN  Take(args[i], k - 1) \o prompt \o Drop(args[i], k)
        ELSE args[i]]

\* args.map(...) of both functions
MapPrompt(args, prompt) ==
    [i \in 1..Len(args) |->
        IF Includes(args[i], Placeholder)
        THEN ReplaceAll(args[i], Placeholder, prompt)
        ELSE args[i]]

hasPlaceholder(args) == \E i \in 1..Len(args) : Includes(args[i], Placeholder)

applyPromptToArgs(args, prompt, appendPromptIfMissing) ==
    IF appendPromptIfMissing /\ ~hasPlaceholder(args)
    THEN Append(MapPrompt(args, prompt), prompt)
    ELSE MapPrompt(args, prompt)

applyPrompt(args, prompt, stdinMode) ==
    IF ~stdinMode /\ ~hasPlaceholder(args)
    THEN Append(MapPrompt(args, prompt), prompt)
    ELSE MapPrompt(args, prompt)

\* configured arguments, with no, one and two placeholders
ArgUniverse ==
    {<<"-p">>, <<"{prompt}">>, <<"--msg=", "{prompt}">>, <<"{prompt}", ":", "{prompt}">>}

\* prompts: plain text, empty, and texts with $ sequences or the placeholder
PromptUniverse ==
    {<<"hi">>, <<>>, <<"a", SP, "b">>, <<DOLLAR, "&">>, <<DOLLAR, DOLLAR>>,
     <<DOLLAR, "'">>, <<"{prompt}">>, <<"cost ", DOLLAR, "5">>}

InitPrompt ==
    /\ call \in [fn : {"applyPromptToArgs", "applyPrompt"},
                 args : SeqsUpTo(ArgUniverse, MaxArgs),
                 prompt : PromptUniverse,
                 stdin : BOOLEAN]
    /\ ret = <<>>
    /\ returned = FALSE
    /\ OnlyFun

\* resolveCommand: applyPromptToArgs(rawArgs, prompt, !stdinMode)
ResolveCommandArgs ==
    /\ ~returned /\ call.fn = "applyPromptToArgs"
    /\ ret' = applyPromptToArgs(call.args, call.prompt, ~call.stdin)
    /\ returned' = TRUE
    /\ UNCHANGED <<restOfFun, call>>

\* runWrappedCommandPrompt: applyPrompt(baseArgs, prompt, stdin)
WrappedCommandArgs ==
    /\ ~returned /\ call.fn = "applyPrompt"
    /\ ret' = applyPrompt(call.args, call.prompt, call.stdin)
    /\ returned' = TRUE
    /\ UNCHANGED <<restOfFun, call>>

NextPrompt == ResolveCommandArgs \/ WrappedCommandArgs

SpecPrompt == InitPrompt /\ [][NextPrompt]_vars

\* the argument with the prompt written in the place of every placeholder
Substituted(arg, prompt) ==
    Flatten([k \in 1..Len(arg) |->
                IF <<arg[k]>> = Placeholder THEN prompt ELSE <<arg[k]>>],
            1, Len(arg))

PlainPrompt(prompt) == \A k \in 1..Len(prompt) : prompt[k] # DOLLAR

Scalars == {JStr(<<>>), JStr(<<SP>>), JStr(<<"a", SP>>), JAtom("hi"), JNum("7"), JNull}

MemberKeys == {"result", "text", "foo"}

\* the objects with members `keys`, in that order, and values from S
ObjectsOver(keys, S) ==
    {JObjOrdered(m, keys) : m \in [{keys[i] : i \in 1..Len(keys)} -> S]}

DistinctKeys(n) ==
    {ks \in SeqsUpTo(MemberKeys, n) : \A i, j \in 1..Len(ks) : i # j => ks[i] # ks[j]}

ArraysOver(S, n) == {JArr(items) : items \in SeqsUpTo(S, n)}

Composites(S, n) ==
    ArraysOver(S, n) \cup UNION {ObjectsOver(ks, S) : ks \in DistinctKeys(n)}

NestedParts ==
    {JAtom("hi"), JArr(<<JStr(<<SP>>)>>), JArr(<<JStr(<<"a", SP>>)>>),
     JArr(<<JNum("7"), JAtom("b")>>), JObj([foo |-> JAtom("x")]),
     JObj([content |-> JStr(<<>>)])}

Documents == Scalars \cup Composites(Scalars, MaxItems) \cup Composites(NestedParts, MaxItems)

InitExtract ==
    /\ call \in [fn : {"extractTextFromUnknown"},
                 copy : {"provider-sdk", "server"},
                 value : Documents]
    /\ ret = <<>>
    /\ returned = FALSE
    /\ OnlyFun

ExtractText ==
    /\ ~returned /\ call.fn = "extractTextFromUnknown"
    /\ ret' = extractTextFromUnknown(call.value)
    /\ returned' = TRUE
    /\ UNCHANGED <<restOfFun, call>>

NextExtract == ExtractText

SpecExtract == InitExtract /\ [][NextExtract]_vars

\* the extraction as C13 states it: the string itself; for an array the
\* non-empty extractions of the elements joined by newline; for an object the
\* first non-empty extraction of a preferred key, else of a property value
RECURSIVE StatedExtraction(_)
StatedExtraction(value) ==
    CASE value.t = "str" -> value.s
      [] value.t = "arr" ->
            Join(SelectSeq([i \in 1..Len(value.a) |-> StatedExtraction(value.a[i])],
                           LAMBDA x : x # <<>>),
                 <<LF>>)
      [] value.t = "obj" ->
            LET keyed == SelectSeq(preferredKeys,
                                   LAMBDA key : /\ key \in DOMAIN value.o
                                                /\ StatedExtraction(value.o[key]) # <<>>)
                other == SelectSeq(value.k,
                                   LAMBDA key : StatedExtraction(value.o[key]) # <<>>)
            IN  IF keyed # <<>> THEN StatedExtraction(value.o[keyed[1]])
                ELSE IF other # <<>> THEN StatedExtraction(value.o[other[1]])
                ELSE <<>>
      [] OTHER -> <<>>

\* C13: text extraction returns, for an object, the extraction of the first
\* preferred key whose extraction is non-empty, else the first non-empty
\* extraction of a property value; for an array, the non-empty extractions of
\* the elements joined by newline; for a string, the string; else nothing
C13_Extraction ==
    (returned /\ call.fn = "extractTextFromUnknown") =>
        ret = StatedExtraction(call.value)

\* lines a command prints: documents with and without text, and other text
LineUniverse ==
    {JsonStringify(JObj([result |-> JAtom("hi")])),
     JsonStringify(JObj([text |-> JStr(<<"yo", SP>>)])),
     JsonStringify(JObj([foo |-> JNum("7")])),
     JsonStringify(JArr(<<JStr(<<SP>>)>>)),
     <<"{", QUOTE, "text", QUOTE>>,
     <<"plain", SP>>,
     <<>>}

StderrUniverse == {<<>>, <<SP, "err", LF>>}

InitNormalize ==
    /\ \E lines \in SeqsUpTo(LineUniverse, MaxLines), crlf \in BOOLEAN :
         call \in [fn : {"normalizeCliOutput", "normalizeWrappedOutput"},
                   stdout : {Join(lines, IF crlf THEN <<CR, LF>> ELSE <<LF>>)},
                   stderr : StderrUniverse,
                   parse : {"text", "json"}]
    /\ ret = <<>>
    /\ returned = FALSE
    /\ OnlyFun

NormalizeCliOutput ==
    /\ ~returned /\ call.fn = "normalizeCliOutput"
    /\ ret' = normalizeCliOutput(call.stdout, call.stderr, call.parse)
    /\ returned' = TRUE
    /\ UNCHANGED <<restOfFun, call>>

NormalizeWrappedOutput ==
    /\ ~returned /\ call.fn = "normalizeWrappedOutput"
    /\ ret' = normalizeWrappedOutput(call.stdout, call.stderr, call.parse)
    /\ returned' = TRUE
    /\ UNCHANGED <<restOfFun, call>>

NextNormalize == NormalizeCliOutput \/ NormalizeWrappedOutput

SpecNormalize == InitNormalize /\ [][NextNormalize]_vars

\* the trimmed text extracted from a document, <<>> when it does not parse
ExtractedFrom(doc) ==
    LET parsed == JsonParse(doc)
    IN  IF parsed.ok THEN Trim(extractTextFromUnknown(parsed.val)) ELSE <<>>

Parses(doc) == JsonParse(doc).ok

TokenTexts ==
    LET tokens == SelectSeq(produced, LAMBDA e : EventType(e) = "token")
    IN  [i \in 1..Len(tokens) |-> tokens[i].o.text.s]

\* C15: a CLI-wrapped turn that got its output emits one token per non-empty
\* line of it, in order: the line and a newline for each but the last, the
\* bare line for the last; the whole output as one token when it is a single
\* line; no token when it is empty
C15_TokenPerLine ==
    (gen \in CliKinds /\ pc \in {"typing_off", "message_end", "returned"}) =>
        LET lines == SelectSeq(SplitLines(genText), LAMBDA line : line # <<>>)
        IN  /\ Len(TokenTexts) = Len(lines)
            /\ \A i \in 1..Len(lines) :
                  TokenTexts[i] = IF i < Len(lines) THEN lines[i] \o <<LF>> ELSE lines[i]
            /\ (Len(lines) = 1 => TokenTexts = <<genText>>)
            /\ (genText = <<>> => TokenTexts = <<>>)

\* C15 witness: an output of four lines, one of them blank, gave four tokens
C15_Witness ==
    /\ gen \in CliKinds /\ pc = "returned"
    /\ genText = <<"a", LF, SP, LF, "b", LF, "c">>
    /\ Len(TokenTexts) = 4
    /\ TokenTexts[4] = <<"c">>

(***************************************************************************)
(* The envelope of a remote adapter for one JSON body.                     *)
(***************************************************************************)

\* the first of the body's text, message and output fields that is there
FirstPresent(body) ==
    IF Has(body, "text") THEN body.o.text.s
    ELSE IF Has(body, "message") THEN body.o.message.s
    ELSE IF Has(body, "output") THEN body.o.output.s
    ELSE <<>>

EventTypes == [i \in 1..Len(produced) |-> EventType(produced[i])]

\* a remote adapter has returned after an ok response that was one JSON body
JsonEnvelopeDone == gen \in RemoteKinds /\ response.type = "json" /\ pc = "returned"

\* C16: after a successful response that is not an event stream, a remote
\* adapter has emitted exactly three events, message_start, one token and
\* message_end, and the token text and the message_end text are the first
\* present of the body's text, message and output fields
C16_JsonEnvelope ==
    JsonEnvelopeDone =>
        /\ EventTypes = <<"message_start", "token", "message_end">>
        /\ produced[2].o.text.s = FirstPresent(response.body)
        /\ produced[3].o.text.s = FirstPresent(response.body)

\* the same where the first present field is not the empty string: holds
NonEmptyJsonEnvelope ==
    (JsonEnvelopeDone /\ FirstPresent(response.body) # <<>>) => 
        /\ EventTypes = <<"message_start", "token", "message_end">>
        /\ produced[2].o.text.s = FirstPresent(response.body)
        /\ produced[3].o.text.s = FirstPresent(response.body)

(***************************************************************************)
(* A remote adapter whose response is not ok.                              *)
(***************************************************************************)

\* a remote adapter has received a response with a non-success status
RemoteNotOk == gen \in RemoteKinds /\ response.type = "text" /\ ~response.ok

\* C17: after a response with a non-success status a remote adapter has
\* emitted no event, has failed with a message that contains the text of the
\* response body verbatim, and has issued its request exactly once
C17_TransportError ==
    RemoteNotOk =>
        /\ produced = <<>>
        /\ closed /\ failure.thrown /\ failure.isError
        /\ Contains(failure.message, response.text)
        /\ requests = 1

\* C17 witness: a 500 response whose body has spaces, quotes and a line feed
C17_Witness ==
    /\ gen = "openclaw" /\ response.status = "500"
    /\ response.text = <<SP, "bad", SP, QUOTE, "x", QUOTE, LF>>
    /\ failure.message =
         <<"Remote provider request failed (", "500", "): ",
           SP, "bad", SP, QUOTE, "x", QUOTE, LF>>
    /\ requests = 1 /\ produced = <<>>

(***************************************************************************)
(* The server's routes: push registration, chat, async trigger and         *)
(* schedule; and the client's chatStream up to the request it sends.       *)
(***************************************************************************)
GoodProvider ==
    JObj([kind |-> JAtom("terminal-cli"), baseUrl |-> JStr(<<"http://", "host">>)])

GoodContact ==
    JObj([id |-> JAtom("c1"), displayName |-> JAtom("Ann"), provider |-> GoodProvider])

BadContacts ==
    { JObj([id |-> JStr(<<>>), displayName |-> JAtom("Ann"), provider |-> GoodProvider]),
      JObj([id |-> JAtom("c1"), displayName |-> JAtom("Ann"),
            provider |-> JObj([kind |-> JAtom("telnet"),
                               baseUrl |-> JStr(<<"http://", "host">>)])]),
      JAtom("c1") }

\* the text member of an async request: absent, blank, padded
TextOptions == {<<>>, <<JStr(<<SP>>)>>, <<JStr(<<SP, "hi", SP>>)>>}

WithText(members, option) ==
    IF option = <<>> THEN JObj(members)
    ELSE JObj([k \in DOMAIN members \cup {"text"} |->
                  IF k = "text" THEN option[1] ELSE members[k]])

PushBodies ==
    { JObj([contactId |-> JAtom("c1"), threadId |-> JAtom(ThreadId),
            expoPushToken |-> JAtom("tokA"), platform |-> JAtom(platform)]) :
        platform \in {"ios", "web"} }
    \cup { JObj([contactId |-> JAtom("c1"), threadId |-> JAtom(ThreadId),
                 expoPushToken |-> JStr(<<>>), platform |-> JAtom("ios")]),
           JObj([contactId |-> JAtom("c1"), expoPushToken |-> JAtom("tokA"),
                 platform |-> JAtom("ios")]) }

ChatBodies ==
    { JObj([threadId |-> JAtom(ThreadId), contact |-> contact,
            message |-> JObj([text |-> JAtom("hi")])]) :
        contact \in {GoodContact} \cup BadContacts }
    \cup { JObj([threadId |-> JAtom(ThreadId), contact |-> GoodContact]),
           JObj([threadId |-> JStr(<<>>), contact |-> GoodContact,
                 message |-> JObj([text |-> JAtom("hi")])]),
           JObj([threadId |-> JAtom(ThreadId), contact |-> GoodContact,
                 message |-> JObj([text |-> JNum("5")])]) }

TriggerBodies ==
    { WithText([contact |-> GoodContact, threadId |-> JAtom(ThreadId)], option) :
        option \in {<<>>, <<JStr(<<SP, "hi", SP>>)>>} }
    \cup { JObj([contact |-> contact, threadId |-> JAtom(ThreadId)]) :
             contact \in BadContacts }

ScheduleBodies ==
    { WithText([contact |-> GoodContact, threadId |-> JAtom(ThreadId),
                delaySeconds |-> JNum("1")], option) : option \in TextOptions }
    \cup { JObj([contact |-> GoodContact, threadId |-> JAtom(ThreadId),
                 delaySeconds |-> JNum(lit)]) : lit \in DOMAIN NumberLiterals }
    \cup { JObj([contact |-> GoodContact, threadId |-> JAtom(ThreadId),
                 delaySeconds |-> JAtom("5")]),
           JObj([contact |-> GoodContact, threadId |-> JAtom(ThreadId)]),
           JObj([contact |-> JAtom("c1"), threadId |-> JAtom(ThreadId),
                 delaySeconds |-> JNum("5")]) }

\* the token texts a provider streams for the filler prompt (in wrapped mode:
\* the output of the command)
TokenRuns == {<<<<SP>>>>, <<<<SP, "a">>, <<"b", LF>>>>}

FillerPrompt == <<"Send a short async follow-up message in one sentence.">>

Canned == <<"Quick follow-up from your agent.">>

\* the server's randomId
serverRandomId(n) == ToString(n + 1)

getPushRegistryKey(contactId, threadId) == contactId \o <<":">> \o threadId

registerPushToken(registry, contactId, threadId, token) ==
    LET key == getPushRegistryKey(contactId, threadId)
        existing == IF key \in DOMAIN registry THEN registry[key] ELSE {}
    IN  [k \in DOMAIN registry \cup {key} |->
            IF k = key THEN existing \cup {token} ELSE registry[k]]

\* `text && text.trim().length > 0`
SuppliedNonBlank(hasText, text) == hasText /\ text # <<>> /\ Len(Trim(text)) > 0

\* generateAgentText, given what the provider (or the wrapped command) put out
generateAgentText(hasText, text, collected) ==
    IF SuppliedNonBlank(hasText, text) THEN Trim(text)
    ELSE IF Trim(collected) # <<>> THEN Trim(collected)
    ELSE Canned

\* String.prototype.toLowerCase, symbol by symbol
ToLowerCase(s) ==
    [i \in 1..Len(s) |->
        CASE s[i] = "Claude"   -> "claude"
          [] s[i] = "OpenClaw" -> "openclaw"
          [] s[i] = "NANO"     -> "nano"
          [] OTHER             -> s[i]]

inferWrappedKind(command) ==
    LET normalized == ToLowerCase(command)
    IN  IF Contains(normalized, <<"claude">>) THEN "claude-code-cli"
        ELSE IF Contains(normalized, <<"openclaw">>) THEN "openclaw-cli"
        ELSE IF Contains(normalized, <<"nano">>) THEN "nanoclaw-cli"
        ELSE "terminal-cli"

\* what parseWrappedCommandConfig returns for the command `command`
WrappedConfig(command) == [command |-> command, inferredKind |-> inferWrappedKind(command)]

Wrapped == wrappedCommand # NoWrappedCommand

\* registry.get(kind), as a call of the registry
RegistryCall(method, kind) == [method |-> method, kind |-> kind]

InitServer ==
    /\ wrappedCommand \in {NoWrappedCommand, WrappedConfig(<<"sh">>)}
    /\ consulted = {} /\ reply = NoReply
    /\ pushRegistry = <<>> /\ registered = {}
    /\ scheduledJobs = {} /\ dispatches = <<>>
    /\ errorLog = {} /\ unhandled = 0
    /\ turns = <<>> /\ sent = <<>> /\ lastRejected = "none" /\ nextJob = 0
    /\ OnlySrv

\* the route answers, or the parse throws and app.onError logs the error and
\* answers 500
Respond(route, ok) ==
    /\ lastRejected' = IF ok THEN lastRejected ELSE route
    /\ errorLog' = IF ok THEN errorLog ELSE errorLog \cup {[what |-> "ZodError", job |-> ""]}

\* a dispatch of the request `json` starts under the id `id`
StartDispatch(id, via, phase, json) ==
    dispatches' =
        [j \in DOMAIN dispatches \cup {id} |->
            IF j = id
            THEN [via |-> via, phase |-> phase, result |-> "none",
                  key |-> getPushRegistryKey(json.o.contact.o.id.s, json.o.threadId.s),
                  title |-> json.o.contact.o.displayName.s,
                  hasText |-> Has(json, "text"),
                  text |-> IF Has(json, "text") THEN json.o.text.s ELSE <<>>,
                  kind |-> json.o.contact.o.provider.o.kind.s[1],
                  servedBy |-> "none",
                  contactId |-> json.o.contact.o.id.s,
                  threadId |-> json.o.threadId.s,
                  invoked |-> FALSE, collected |-> <<>>, pushed |-> FALSE,
                  body |-> <<>>, to |-> {}, fetched |-> FALSE,
                  registeredThen |-> {}, deliveredTo |-> -1]
            ELSE dispatches[j]]

PostPushRegister(json) ==
    /\ Respond("/v1/push/register", PushRegistrationSchema(json))
    /\ pushRegistry' =
         IF PushRegistrationSchema(json)
         THEN registerPushToken(pushRegistry, json.o.contactId.s, json.o.threadId.s,
                                json.o.expoPushToken.s)
         ELSE pushRegistry
    /\ registered' =
         IF PushRegistrationSchema(json)
         THEN registered \cup {[contactId |-> json.o.contactId.s,
                                threadId |-> json.o.threadId.s,
                                token |-> json.o.expoPushToken.s]}
         ELSE registered
    /\ UNCHANGED <<restOfSrv, wrappedCommand, consulted, reply, scheduledJobs, dispatches,
                   unhandled, turns, sent, nextJob>>

\* POST /v1/chat.stream: a valid request starts a chat turn
PostChatStream(json) ==
    /\ ChatStreamRequestSchema(json) => Len(turns) < MaxTurns
    /\ Respond("/v1/chat.stream", ChatStreamRequestSchema(json))
    /\ turns' = IF ChatStreamRequestSchema(json)
                THEN Append(turns,
                            [kind |-> json.o.contact.o.provider.o.kind.s[1],
                             servedBy |-> IF Wrapped THEN WrappedCommand
                                          ELSE json.o.contact.o.provider.o.kind.s[1]])
                ELSE turns
    /\ consulted' = IF ChatStreamRequestSchema(json) /\ ~Wrapped
                    THEN consulted \cup
                           {RegistryCall("get", json.o.contact.o.provider.o.kind.s[1])}
                    ELSE consulted
    /\ UNCHANGED <<restOfSrv, wrappedCommand, reply, pushRegistry, registered, scheduledJobs, dispatches,
                   unhandled, sent, nextJob>>

\* the client's chatStream: a valid request is sent, an invalid one makes
\* the parse throw to the caller
ClientChatStream(request) ==
    /\ ChatStreamRequestSchema(request) => Len(sent) < MaxSent
    /\ lastRejected' = IF ChatStreamRequestSchema(request) THEN lastRejected
                       ELSE "client.chatStream"
    /\ sent' = IF ChatStreamRequestSchema(request)
               THEN Append(sent, "/v1/chat.stream") ELSE sent
    /\ UNCHANGED <<restOfSrv, wrappedCommand, consulted, reply, pushRegistry, registered, scheduledJobs, dispatches,
                   errorLog, unhandled, turns, nextJob>>

\* POST /v1/async/trigger: a valid request is dispatched at once
PostTrigger(json) ==
    /\ AsyncTriggerRequestSchema(json) => Cardinality(DOMAIN dispatches) < MaxJobs
    /\ Respond("/v1/async/trigger", AsyncTriggerRequestSchema(json))
    /\ IF AsyncTriggerRequestSchema(json)
       THEN /\ StartDispatch(serverRandomId(nextJob), "trigger", "generating", json)
            /\ nextJob' = nextJob + 1
       ELSE UNCHANGED <<dispatches, nextJob>>
    /\ UNCHANGED <<restOfSrv, wrappedCommand, consulted, reply, pushRegistry, registered, scheduledJobs,
                   unhandled, turns, sent>>

\* POST /v1/async/schedule: a valid request arms a timer and adds the job
PostSchedule(json) ==
    /\ AsyncScheduleRequestSchema(json) => Cardinality(DOMAIN dispatches) < MaxJobs
    /\ Respond("/v1/async/schedule", AsyncScheduleRequestSchema(json))
    /\ IF AsyncScheduleRequestSchema(json)
       THEN /\ StartDispatch(serverRandomId(nextJob), "schedule", "armed", json)
            /\ scheduledJobs' = scheduledJobs \cup {serverRandomId(nextJob)}
            /\ nextJob' = nextJob + 1
       ELSE UNCHANGED <<dispatches, scheduledJobs, nextJob>>
    /\ UNCHANGED <<restOfSrv, wrappedCommand, consulted, reply, pushRegistry, registered, unhandled, turns, sent>>

\* the timer of a pending job fires: its callback calls dispatchAsyncMessage
JobTimerFires(j) ==
    /\ j \in DOMAIN dispatches /\ dispatches[j].phase = "armed"
    /\ dispatches' = [dispatches EXCEPT ![j].phase = "generating"]
    /\ UNCHANGED <<restOfSrv, wrappedCommand, consulted, reply, pushRegistry, registered, scheduledJobs,
                   errorLog, unhandled, turns, sent, lastRejected, nextJob>>

\* mutant: the job is deleted at the end of the try block
FinishDeleteInTry(j, d, ok) ==
    /\ dispatches' = [dispatches EXCEPT
                        ![j] = [d EXCEPT !.phase = "done",
                                         !.result = IF ok THEN "ok" ELSE "failed",
                                         !.deliveredTo =
                                             IF ok THEN Cardinality(d.to) ELSE -1]]
    /\ scheduledJobs' = IF d.via = "schedule" /\ ok
                        THEN scheduledJobs \ {j} ELSE scheduledJobs
    /\ errorLog' =
         IF ok THEN errorLog
         ELSE errorLog \cup
                {[what |-> IF d.via = "schedule"
                           THEN "Failed to dispatch scheduled async message"
                           ELSE "server_error",
                  job |-> j]}
    /\ unhandled' = unhandled

\* dispatchAsyncMessage has returned (ok) or thrown, the dispatch being `d`
\* by then.  A scheduled job logs the failure in its catch block and deletes
\* its id in the finally block; the trigger route answers, with 500 from
\* app.onError after a failure
Finish(j, d, ok) ==
    /\ dispatches' = [dispatches EXCEPT
                        ![j] = [d EXCEPT !.phase = "done",
                                         !.result = IF ok THEN "ok" ELSE "failed",
                                         !.deliveredTo =
                                             IF ok THEN Cardinality(d.to) ELSE -1]]
    /\ scheduledJobs' = IF d.via = "schedule"
                        THEN scheduledJobs \ {j} ELSE scheduledJobs
    /\ errorLog' =
         IF ok THEN errorLog
         ELSE errorLog \cup
                {[what |-> IF d.via = "schedule"
                           THEN "Failed to dispatch scheduled async message"
                           ELSE "server_error",
                  job |-> j]}
    /\ unhandled' = unhandled

\* generateAgentText returns; the push tokens are read and sendExpoPush is
\* called, which returns at once when there is no token
GenerateText(j, tokens) ==
    /\ j \in DOMAIN dispatches /\ dispatches[j].phase = "generating"
    /\ SuppliedNonBlank(dispatches[j].hasText, dispatches[j].text) => tokens = <<>>
    /\ LET d == dispatches[j]
           tokensOf == IF d.key \in DOMAIN pushRegistry THEN pushRegistry[d.key] ELSE {}
           called == [d EXCEPT
                        !.invoked = ~SuppliedNonBlank(d.hasText, d.text),
                        !.servedBy = IF SuppliedNonBlank(d.hasText, d.text) THEN "none"
                                     ELSE IF Wrapped THEN WrappedCommand ELSE d.kind,
                        !.collected = Concat(tokens),
                        !.pushed = TRUE,
                        !.body = generateAgentText(d.hasText, d.text, Concat(tokens)),
                        !.to = tokensOf,
                        !.fetched = tokensOf # {},
                        !.registeredThen =
                            {r.token : r \in {x \in registered :
                                                 /\ x.contactId = d.contactId
                                                 /\ x.threadId = d.threadId}},
                        !.phase = "pushing"]
       IN  IF tokensOf = {}
           THEN Finish(j, called, TRUE)
           ELSE /\ dispatches' = [dispatches EXCEPT ![j] = called]
                /\ UNCHANGED <<scheduledJobs, errorLog, unhandled>>
    /\ consulted' = IF SuppliedNonBlank(dispatches[j].hasText, dispatches[j].text)
                       \/ Wrapped
                    THEN consulted
                    ELSE consulted \cup {RegistryCall("get", dispatches[j].kind)}
    /\ UNCHANGED <<restOfSrv, wrappedCommand, reply, pushRegistry, registered, turns, sent, lastRejected,
                   nextJob>>

\* the provider (or the wrapped command) fails while generateAgentText runs
GenerateFails(j) ==
    /\ j \in DOMAIN dispatches /\ dispatches[j].phase = "generating"
    /\ ~SuppliedNonBlank(dispatches[j].hasText, dispatches[j].text)
    /\ Finish(j, [dispatches[j] EXCEPT
                      !.invoked = TRUE,
                      !.servedBy = IF Wrapped THEN WrappedCommand ELSE dispatches[j].kind],
              FALSE)
    /\ consulted' = IF Wrapped THEN consulted
                    ELSE consulted \cup {RegistryCall("get", dispatches[j].kind)}
    /\ UNCHANGED <<restOfSrv, wrappedCommand, reply, pushRegistry, registered, turns, sent,
                   lastRejected, nextJob>>

\* the request of sendExpoPush is answered: ok, or not ok and it throws
PushSettles(j, ok) ==
    /\ j \in DOMAIN dispatches /\ dispatches[j].phase = "pushing"
    /\ Finish(j, dispatches[j], ok)
    /\ UNCHANGED <<restOfSrv, wrappedCommand, consulted, reply, pushRegistry, registered, turns, sent,
                   lastRejected, nextJob>>

JobIds == {serverRandomId(n) : n \in 0..MaxJobs}

\* the requests arrive, valid or not; the timers do not fire yet
NextValidate ==
    \/ \E json \in PushBodies : PostPushRegister(json)
    \/ \E json \in ChatBodies : PostChatStream(json)
    \/ \E request \in ChatBodies : ClientChatStream(request)
    \/ \E json \in TriggerBodies : PostTrigger(json)
    \/ \E json \in ScheduleBodies : PostSchedule(json)

SpecValidate == InitServer /\ [][NextValidate]_vars

Valid(bodies, Schema(_)) == {json \in bodies : Schema(json)}

\* valid async requests arrive and are dispatched
NextAsync ==
    \/ \E json \in Valid(PushBodies, PushRegistrationSchema) : PostPushRegister(json)
    \/ \E json \in Valid(TriggerBodies, AsyncTriggerRequestSchema) : PostTrigger(json)
    \/ \E json \in Valid(ScheduleBodies, AsyncScheduleRequestSchema) : PostSchedule(json)
    \/ \E j \in JobIds : JobTimerFires(j)
    \/ \E j \in JobIds, tokens \in TokenRuns \cup {<<>>} : GenerateText(j, tokens)
    \/ \E j \in JobIds : GenerateFails(j)
    \/ \E j \in JobIds, ok \in BOOLEAN : PushSettles(j, ok)

SpecAsync == InitServer /\ [][NextAsync]_vars

(***************************************************************************)
(* Requests that fail validation.                                          *)
(***************************************************************************)

\* delaySeconds is an integer in 1..3600
IntegerDelay(json) ==
    /\ Has(json, "delaySeconds") /\ json.o.delaySeconds.t = "num"
    /\ NumberOf(json, "delaySeconds").tenths = 0
    /\ NumberOf(json, "delaySeconds").whole \in 1..3600

\* the requests that are malformed
MalformedChatBodies == {json \in ChatBodies : ~ChatStreamRequestSchema(json)}

BadDelayBodies == {json \in ScheduleBodies : ~IntegerDelay(json)}

MalformedPushBodies == {json \in PushBodies : ~PushRegistrationSchema(json)}

\* C18: a request that fails validation has no effect: a malformed chat
\* request starts no chat turn on the server (no SSE event, no provider, no
\* subprocess) and sends no HTTP request from the client; a schedule request
\* whose delaySeconds is not an integer in 1..3600 arms no timer and adds no
\* pending job; a malformed push registration adds no token
C18_InvalidHasNoEffect ==
    [][ /\ \A json \in MalformedChatBodies :
             PostChatStream(json) => UNCHANGED <<turns, streamVars, cliVars>>
        /\ \A request \in MalformedChatBodies :
             ClientChatStream(request) => UNCHANGED sent
        /\ \A json \in BadDelayBodies :
             PostSchedule(json) => UNCHANGED <<scheduledJobs, dispatches, nextJob>>
        /\ \A json \in MalformedPushBodies :
             PostPushRegister(json) => UNCHANGED pushRegistry ]_vars

\* C18 witness: a schedule request was rejected, and the one pending job is
\* the job of a request that was accepted
C18_Witness ==
    /\ lastRejected = "/v1/async/schedule"
    /\ [what |-> "ZodError", job |-> ""] \in errorLog
    /\ scheduledJobs = {"1"} /\ DOMAIN dispatches = {"1"} /\ nextJob = 1

(***************************************************************************)
(* Scheduled jobs.                                                         *)
(***************************************************************************)
Scheduled == {j \in DOMAIN dispatches : dispatches[j].via = "schedule"}

\* C19: the id of a scheduled job is in the pending set from the return of
\* schedule until its timer has fired and its dispatch has finished, and is
\* out of it from then on, whether the dispatch succeeded or failed; a
\* failure of the dispatch is logged and is not thrown out of the callback
C19_JobRemovedAfterDispatch ==
    /\ scheduledJobs \subseteq Scheduled
    /\ \A j \in Scheduled :
         /\ dispatches[j].phase \in {"armed", "generating", "pushing"}
              => j \in scheduledJobs
         /\ dispatches[j].phase = "done" =>
              /\ j \notin scheduledJobs
              /\ dispatches[j].result \in {"ok", "failed"}
              /\ dispatches[j].result = "failed" =>
                   [what |-> "Failed to dispatch scheduled async message", job |-> j]
                       \in errorLog
    /\ unhandled = 0

\* C19 witness: the dispatch of the first job failed and its id is gone,
\* the second job is still pending
C19_Witness ==
    /\ Scheduled = {"1", "2"}
    /\ dispatches["1"].phase = "done" /\ dispatches["1"].result = "failed"
    /\ dispatches["2"].phase = "armed"
    /\ scheduledJobs = {"2"}
    /\ [what |-> "Failed to dispatch scheduled async message", job |-> "1"] \in errorLog

(***************************************************************************)
(* The text an async dispatch pushes.                                      *)
(***************************************************************************)
Pushed == {j \in DOMAIN dispatches : dispatches[j].pushed}

Blank(text) == Trim(text) = <<>>

\* C20: the text dispatched is the supplied text, character for character,
\* when it is supplied and not blank; otherwise the token output collected
\* from the provider for the filler prompt; otherwise, when that output is
\* blank, the canned sentence
C20_DispatchedText ==
    \A j \in Pushed :
        dispatches[j].body =
            IF dispatches[j].hasText /\ ~Blank(dispatches[j].text)
            THEN dispatches[j].text
            ELSE IF ~Blank(dispatches[j].collected) THEN dispatches[j].collected
            ELSE Canned

\* the same with the supplied text and the collected output trimmed: holds
DispatchedTextTrimmed ==
    \A j \in Pushed :
        /\ dispatches[j].body =
             IF dispatches[j].hasText /\ ~Blank(dispatches[j].text)
             THEN Trim(dispatches[j].text)
             ELSE IF ~Blank(dispatches[j].collected) THEN Trim(dispatches[j].collected)
             ELSE Canned
        /\ dispatches[j].invoked = ~(dispatches[j].hasText /\ ~Blank(dispatches[j].text))

(***************************************************************************)
(* Push delivery of an async trigger.                                      *)
(***************************************************************************)
ContactWithId(id) ==
    JObj([id |-> JStr(id), displayName |-> JAtom("Ann"), provider |-> GoodProvider])

\* registrations under the pairs (a, b:c) and (a:b, c)
PairedPushBodies ==
    { JObj([contactId |-> JStr(<<"a">>), threadId |-> JStr(<<"b", ":", "c">>),
            expoPushToken |-> JAtom(tok), platform |-> JAtom("ios")]) :
        tok \in {"tokA", "tokB"} }
    \cup { JObj([contactId |-> JStr(<<"a", ":", "b">>), threadId |-> JStr(<<"c">>),
                 expoPushToken |-> JAtom("tokC"), platform |-> JAtom("android")]) }

\* triggers for the pairs (a, b:c) and (a, c), with a text of their own
PairedTriggerBodies ==
    { JObj([contact |-> ContactWithId(<<"a">>), threadId |-> JStr(threadId),
            text |-> JAtom("hi")]) :
        threadId \in {<<"b", ":", "c">>, <<"c">>} }

NextPush ==
    \/ \E json \in PairedPushBodies : PostPushRegister(json)
    \/ \E json \in PairedTriggerBodies : PostTrigger(json)
    \/ \E j \in JobIds : GenerateText(j, <<>>)
    \/ \E j \in JobIds, ok \in BOOLEAN : PushSettles(j, ok)

SpecPush == InitServer /\ [][NextPush]_vars

Triggered == {j \in DOMAIN dispatches : dispatches[j].via = "trigger"}

\* the dispatch `d` delivered to the tokens registered under its contact id
\* and thread id, and to no one when there was none
DeliversToRegistered(d) ==
    /\ d.to = d.registeredThen
    /\ d.fetched = (d.registeredThen # {})
    /\ d.result = "ok" => d.deliveredTo = Cardinality(d.registeredThen)

\* C21: a trigger calls the push delivery with the set of the distinct
\* tokens registered under (contact.id, threadId) and returns its size as
\* deliveredTo; with no token registered nothing is delivered and
\* deliveredTo is 0
C21_DeliversToRegistered ==
    \A j \in Triggered : dispatches[j].pushed => DeliversToRegistered(dispatches[j])

\* the same while no registered contact id has a colon: holds
DeliversWithoutColon ==
    (\A r \in registered : ~Contains(r.contactId, <<":">>)) =>
        \A j \in Triggered :
            dispatches[j].pushed => DeliversToRegistered(dispatches[j])

\* two tokens were registered for the pair and the trigger delivered to both
DeliveredToBoth ==
    \E j \in Triggered :
        /\ dispatches[j].result = "ok" /\ dispatches[j].deliveredTo = 2
        /\ dispatches[j].to = {<<"tokA">>, <<"tokB">>}

(***************************************************************************)
(* The provider registry.  A Map is the sequence of its keys, in insertion *)
(* order, and the value under each key.                                    *)
(***************************************************************************)
EmptyMap == [keys |-> <<>>, at |-> <<>>]

\* mutant: set adds an entry even if the key is there
MapSetAppend(map, key, value) ==
    [keys |-> Append(map.keys, key),
     at   |-> [k \in DOMAIN map.at \cup {key} |-> IF k = key THEN value ELSE map.at[k]]]

\* Map.prototype.set: a new key goes last, a key that is there keeps its place
MapSet(map, key, value) ==
    [keys |-> IF key \in DOMAIN map.at THEN map.keys ELSE Append(map.keys, key),
     at   |-> [k \in DOMAIN map.at \cup {key} |-> IF k = key THEN value ELSE map.at[k]]]

\* Array.from(map.values())
MapValues(map) == [i \in 1..Len(map.keys) |-> map.at[map.keys[i]]]

\* an adapter of kind `kind`; `instance` tells two adapters of a kind apart
Adapter(kind, instance) ==
    [kind |-> kind, instance |-> instance,
     capability |-> [kind |-> kind,
                     supportsStreaming |-> TRUE,
                     supportsAttachments |-> kind \notin CliKinds,
                     supportsAsync |-> kind \notin CliKinds]]

AdapterUniverse ==
    {Adapter("ai-sdk", 1), Adapter("terminal-cli", 1), Adapter("terminal-cli", 2),
     Adapter("openclaw", 1)}

\* the constructor of ProviderRegistry
RECURSIVE ProviderRegistry(_)
ProviderRegistry(adapters) ==
    IF adapters = <<>> THEN EmptyMap
    ELSE LET front == ProviderRegistry(SubSeq(adapters, 1, Len(adapters) - 1))
             adapter == adapters[Len(adapters)]
         IN  MapSet(front, adapter.kind, adapter)

\* the kinds a caller asks for: provider kinds and a string that is none
AskedKinds == {"ai-sdk", "terminal-cli", "openclaw", "pi-mono", "telnet"}

InitRegistry ==
    /\ call \in {[fn |-> "ProviderRegistry", given |-> adapters,
                  adapters |-> ProviderRegistry(adapters)] :
                    adapters \in SeqsUpTo(AdapterUniverse, MaxAdapters)}
    /\ ret = <<>>
    /\ returned = FALSE
    /\ OnlyFun

\* registry.get(kind)
RegistryGet(kind) ==
    /\ ret' = IF kind \notin ProviderKindSchema
              THEN [op |-> "get", kind |-> kind, threw |-> TRUE,
                    message |-> <<"ZodError">>]
              ELSE IF kind \notin DOMAIN call.adapters.at
              THEN [op |-> "get", kind |-> kind, threw |-> TRUE,
                    message |-> <<"No provider adapter registered for kind: ", kind>>]
              ELSE [op |-> "get", kind |-> kind, threw |-> FALSE,
                    adapter |-> call.adapters.at[kind]]
    /\ returned' = TRUE
    /\ UNCHANGED <<restOfFun, call>>

\* registry.capabilities()
RegistryCapabilities ==
    /\ ret' = [op |-> "capabilities", threw |-> FALSE,
               list |-> [i \in 1..Len(call.adapters.keys) |->
                            MapValues(call.adapters)[i].capability]]
    /\ returned' = TRUE
    /\ UNCHANGED <<restOfFun, call>>

NextRegistry ==
    \/ \E kind \in AskedKinds : RegistryGet(kind)
    \/ RegistryCapabilities

SpecRegistry == InitRegistry /\ [][NextRegistry]_vars

\* the kinds of the adapters given to the constructor, each once, in the
\* order of their first registration
RegisteredKinds(given) ==
    LET firsts == {i \in 1..Len(given) : \A h \in 1..(i - 1) : given[h].kind # given[i].kind}
        RECURSIVE InOrder(_)
        InOrder(i) ==
            IF i > Len(given) THEN <<>>
            ELSE (IF i \in firsts THEN <<given[i].kind>> ELSE <<>>) \o InOrder(i + 1)
    IN  InOrder(1)

\* C22: the registry holds at most one adapter per kind; get(kind) returns
\* an adapter of that kind and leaves the registry as it was, get of a kind
\* without adapter fails; capabilities() returns one descriptor per
\* registered kind, in registration order, no kind twice
C22_OneAdapterPerKind ==
    returned =>
        /\ call.adapters = ProviderRegistry(call.given)
        /\ \A h, i \in 1..Len(call.adapters.keys) :
             call.adapters.keys[h] = call.adapters.keys[i] => h = i
        /\ ret.op = "get" =>
             IF \E i \in 1..Len(call.given) : call.given[i].kind = ret.kind
             THEN ~ret.threw /\ ret.adapter.kind = ret.kind
             ELSE ret.threw
        /\ ret.op = "capabilities" =>
             [i \in 1..Len(ret.list) |-> ret.list[i].kind] = RegisteredKinds(call.given)

\* C22 witness: two adapters of one kind were registered and capabilities()
\* returned one descriptor
C22_Witness ==
    /\ returned /\ ret.op = "capabilities"
    /\ call.given = <<Adapter("terminal-cli", 1), Adapter("terminal-cli", 2)>>
    /\ Len(ret.list) = 1 /\ ret.list[1].kind = "terminal-cli"

(***************************************************************************)
(* Wrapped-command mode.                                                   *)
(***************************************************************************)
createDefaultProviderRegistry ==
    ProviderRegistry(<<Adapter("ai-sdk", 1), Adapter("openclaw", 1), Adapter("pi-mono", 1),
                       Adapter("terminal-cli", 1), Adapter("claude-code-cli", 1),
                       Adapter("openclaw-cli", 1), Adapter("nanoclaw-cli", 1)>>)

\* registry.capabilities()
RegistryCapabilityList(registry) ==
    [i \in 1..Len(registry.keys) |-> MapValues(registry)[i].capability]

\* commandCapabilities over the capabilities of a given registry
commandCapabilitiesOver(capabilities) ==
    IF ~Wrapped THEN capabilities
    ELSE <<[kind |-> wrappedCommand.inferredKind,
            supportsStreaming |-> TRUE,
            supportsAttachments |-> FALSE,
            supportsAsync |-> TRUE]>>

\* mutant: the capabilities always come from the registry
commandCapabilitiesOfRegistry == RegistryCapabilityList(createDefaultProviderRegistry)

commandCapabilities ==
    commandCapabilitiesOver(RegistryCapabilityList(createDefaultProviderRegistry))

\* GET /v1/providers/capabilities
GetCapabilities ==
    /\ reply' = [route |-> "/v1/providers/capabilities", status |-> "200",
                 body |-> commandCapabilities]
    /\ consulted' = IF Wrapped THEN consulted
                    ELSE consulted \cup {RegistryCall("capabilities", "")}
    /\ UNCHANGED <<restOfSrv, wrappedCommand, pushRegistry, registered, scheduledJobs,
                   dispatches, errorLog, unhandled, turns, sent, lastRejected, nextJob>>

WrappedCommands ==
    {<<"sh">>, <<"/bin/", "Claude">>, <<"OpenClaw", "-", "claude">>, <<"openclaw">>,
     <<"NANO", "bot">>}

ContactOfKind(kind) ==
    JObj([id |-> JAtom("c1"), displayName |-> JAtom("Ann"),
          provider |-> JObj([kind |-> JAtom(kind),
                             baseUrl |-> JStr(<<"http://", "host">>)])])

RequestedKinds == {"ai-sdk", "openclaw", "terminal-cli"}

KindChatBodies ==
    { JObj([threadId |-> JAtom(ThreadId), contact |-> ContactOfKind(kind),
            message |-> JObj([text |-> JAtom("hi")])]) : kind \in RequestedKinds }

KindTriggerBodies ==
    { JObj([contact |-> ContactOfKind(kind), threadId |-> JAtom(ThreadId)]) :
        kind \in RequestedKinds }

InitWrapped ==
    /\ wrappedCommand \in {NoWrappedCommand} \cup {WrappedConfig(c) : c \in WrappedCommands}
    /\ consulted = {} /\ reply = NoReply
    /\ pushRegistry = <<>> /\ registered = {}
    /\ scheduledJobs = {} /\ dispatches = <<>>
    /\ errorLog = {} /\ unhandled = 0
    /\ turns = <<>> /\ sent = <<>> /\ lastRejected = "none" /\ nextJob = 0
    /\ OnlySrv

NextWrapped ==
    \/ \E json \in KindChatBodies : PostChatStream(json)
    \/ \E json \in KindTriggerBodies : PostTrigger(json)
    \/ \E j \in JobIds : GenerateText(j, <<<<"a">>>>)
    \/ \E j \in JobIds : GenerateFails(j)
    \/ GetCapabilities

SpecWrapped == InitWrapped /\ [][NextWrapped]_vars

\* C23: in wrapped-command mode every chat request and every async dispatch
\* is served by the wrapped command whatever the kind of the contact's
\* provider, the registry is never consulted, and the capabilities endpoint
\* reports exactly one entry, of the wrapped command's inferred kind
C23_WrappedServesAll ==
    Wrapped =>
        /\ \A i \in 1..Len(turns) : turns[i].servedBy = WrappedCommand
        /\ \A j \in DOMAIN dispatches :
             dispatches[j].invoked => dispatches[j].servedBy = WrappedCommand
        /\ consulted = {}
        /\ reply.route = "/v1/providers/capabilities" =>
             /\ Len(reply.body) = 1
             /\ reply.body[1].kind = wrappedCommand.inferredKind

\* C23 witness: the server wraps Claude; a chat request and a dispatch for
\* contacts of two other kinds were served and the capabilities were asked
C23_Witness ==
    /\ wrappedCommand.command = <<"/bin/", "Claude">>
    /\ Len(turns) = 1 /\ turns[1].kind = "ai-sdk" /\ turns[1].servedBy = WrappedCommand
    /\ \E j \in DOMAIN dispatches :
         /\ dispatches[j].kind = "openclaw" /\ dispatches[j].invoked
         /\ dispatches[j].servedBy = WrappedCommand
    /\ reply.body = <<[kind |-> "claude-code-cli", supportsStreaming |-> TRUE,
                       supportsAttachments |-> FALSE, supportsAsync |-> TRUE]>>
    /\ consulted = {}

(***************************************************************************)
(* Provider discovery by the client.  What fetchFn gives for a request is  *)
(* a rejection or a Response: its status, whether response.json() can read *)
(* the body, and the value it reads.                                       *)
(***************************************************************************)
FetchRejected ==
    [rejected |-> TRUE, ok |-> FALSE, status |-> "0", parses |-> FALSE, json |-> JNull]

\* new Response(text, {status}): a body that is no JSON
TextResponse(status) ==
    [rejected |-> FALSE, ok |-> status = "200", status |-> status, parses |-> FALSE,
     json |-> JNull]

\* new Response(JSON.stringify(json), {status})
JsonResponse(status, json) ==
    [rejected |-> FALSE, ok |-> status = "200", status |-> status, parses |-> TRUE,
     json |-> json]

ProviderCapabilitySchema(v) ==
    /\ v.t = "obj"
    /\ ZEnum(v, "kind", ProviderKindSchema)
    /\ ZBoolean(v, "supportsStreaming")
    /\ ZBoolean(v, "supportsAttachments")
    /\ ZBoolean(v, "supportsAsync")

ProviderDiscoverySchema(v) == v.t = "obj" /\ ZEnum(v, "kind", ProviderKindSchema)

CapabilityJson(kind) ==
    JObj([kind |-> JAtom(kind), supportsStreaming |-> JBool(TRUE),
          supportsAttachments |-> JBool(TRUE), supportsAsync |-> JBool(TRUE)])

\* what the default-provider endpoint may answer
DefaultOutcomes ==
    {FetchRejected, TextResponse("404"), TextResponse("200"),
     JsonResponse("404", JObj([kind |-> JAtom("openclaw")])),
     JsonResponse("200", JObj([kind |-> JAtom("openclaw")])),
     JsonResponse("200", JObj([kind |-> JAtom("telnet")])),
     JsonResponse("200", JNull)}

\* the entries of a capabilities list: descriptors, a descriptor of a kind
\* that is none, and one without its flags
CapabilityEntries ==
    {CapabilityJson("openclaw"), CapabilityJson("ai-sdk"), CapabilityJson("terminal-cli"),
     CapabilityJson("telnet"), JObj([kind |-> JAtom("ai-sdk")])}

\* what the capabilities endpoint may answer
CapabilitiesOutcomes ==
    {FetchRejected, TextResponse("503"), TextResponse("200"),
     JsonResponse("200", JNull), JsonResponse("200", JObj([capabilities |-> JAtom("all")]))}
    \cup {JsonResponse(status, JObj([capabilities |-> JArr(list)])) :
            status \in {"200", "503"}, list \in SeqsUpTo(CapabilityEntries, MaxCaps)}

\* listCapabilities once fetchFn has settled with r
listCapabilities(r) ==
    IF r.rejected THEN [threw |-> TRUE, message |-> <<"fetch failed">>, list |-> <<>>]
    ELSE IF ~r.ok
    THEN [threw |-> TRUE,
          message |-> <<"providers.capabilities failed (", r.status, "): ">>, list |-> <<>>]
    ELSE IF ~r.parses THEN [threw |-> TRUE, message |-> <<"Unexpected token">>, list |-> <<>>]
    ELSE IF ~(Has(r.json, "capabilities") /\ r.json.o["capabilities"].t = "arr")
    THEN [threw |-> FALSE, message |-> <<>>, list |-> <<>>]
    ELSE LET items == r.json.o["capabilities"].a
         IN  IF \E i \in 1..Len(items) : ~ProviderCapabilitySchema(items[i])
             THEN [threw |-> TRUE, message |-> <<"ZodError">>, list |-> <<>>]
             ELSE [threw |-> FALSE, message |-> <<>>,
                   list |-> [i \in 1..Len(items) |-> items[i].o["kind"].s[1]]]

fallbackProvider == "terminal-cli"

\* mutant: the first entry's kind, whatever else is listed
PickFirstKind(capabilities) ==
    IF capabilities = <<>> THEN fallbackProvider ELSE capabilities[1]

\* the end of discoverProvider: the kind chosen from the kinds of a
\* capabilities list
PickKind(capabilities) ==
    IF capabilities = <<>> THEN fallbackProvider
    ELSE IF Len(capabilities) = 1 THEN capabilities[1]
    ELSE IF \E i \in 1..Len(capabilities) : capabilities[i] = "ai-sdk" THEN "ai-sdk"
    ELSE capabilities[1]

NotAsked == [rejected |-> FALSE, ok |-> FALSE, status |-> "none", parses |-> FALSE,
             json |-> JNull]

InitDiscover ==
    /\ call = [fn |-> "discoverProvider", awaiting |-> "default", default |-> NotAsked,
               capabilities |-> NotAsked]
    /\ ret = <<>>
    /\ returned = FALSE
    /\ OnlyFun

Resolve(kind) == [threw |-> FALSE, kind |-> kind, message |-> <<>>]

Reject(message) == [threw |-> TRUE, kind |-> "none", message |-> message]

\* discoverProvider from the settling of the default-provider request to
\* its return or to the capabilities request
DefaultSettles(r) ==
    /\ call.fn = "discoverProvider" /\ call.awaiting = "default" /\ ~returned
    /\ IF r.rejected
       THEN /\ ret' = Reject(<<"fetch failed">>)
            /\ returned' = TRUE
            /\ call' = [call EXCEPT !.default = r, !.awaiting = "none"]
       ELSE IF r.ok /\ ~r.parses
       THEN /\ ret' = Reject(<<"Unexpected token">>)
            /\ returned' = TRUE
            /\ call' = [call EXCEPT !.default = r, !.awaiting = "none"]
       ELSE IF r.ok /\ ProviderDiscoverySchema(r.json)
       THEN /\ ret' = Resolve(r.json.o["kind"].s[1])
            /\ returned' = TRUE
            /\ call' = [call EXCEPT !.default = r, !.awaiting = "none"]
       ELSE /\ call' = [call EXCEPT !.default = r, !.awaiting = "capabilities"]
            /\ UNCHANGED <<ret, returned>>
    /\ UNCHANGED restOfFun

\* discoverProvider from the settling of the capabilities request on
CapabilitiesSettles(r) ==
    /\ call.fn = "discoverProvider" /\ call.awaiting = "capabilities" /\ ~returned
    /\ LET listed == listCapabilities(r)
       IN  ret' = IF listed.threw THEN Resolve(fallbackProvider)
                  ELSE Resolve(PickKind(listed.list))
    /\ returned' = TRUE
    /\ call' = [call EXCEPT !.capabilities = r, !.awaiting = "none"]
    /\ UNCHANGED restOfFun

NextDiscover ==
    \/ \E r \in DefaultOutcomes : DefaultSettles(r)
    \/ \E r \in CapabilitiesOutcomes : CapabilitiesSettles(r)

SpecDiscover == InitDiscover /\ [][NextDiscover]_vars

\* the default-provider endpoint answered with success and a provider kind
DefaultReports(r) ==
    ~r.rejected /\ r.ok /\ r.parses /\ Has(r.json, "kind")
    /\ r.json.o["kind"].s \in {<<kind>> : kind \in ProviderKindSchema}

\* the capabilities endpoint answered with success and a list of descriptors
CapabilitiesListed(r) ==
    /\ ~r.rejected /\ r.ok /\ r.parses /\ Has(r.json, "capabilities")
    /\ r.json.o["capabilities"].t = "arr"
    /\ \A i \in 1..Len(r.json.o["capabilities"].a) :
         ProviderCapabilitySchema(r.json.o["capabilities"].a[i])

ListedKinds(r) ==
    [i \in 1..Len(r.json.o["capabilities"].a) |-> r.json.o["capabilities"].a[i].o["kind"].s[1]]

Unavailable(r) == r.rejected \/ ~r.ok \/ ~r.parses

\* C25: discoverProvider always resolves to a provider kind and never
\* fails; when the default-provider endpoint is unavailable and the
\* capabilities endpoint, if asked, is too, it returns terminal-cli
C25_AlwaysResolves ==
    (returned /\ call.fn = "discoverProvider") =>
        /\ ~ret.threw
        /\ ret.kind \in ProviderKindSchema
        /\ (Unavailable(call.default) /\ Unavailable(call.capabilities)) =>
               ret.kind = "terminal-cli"

\* the same for a default-provider endpoint that answers with a body that
\* can be read or with a status that is no success: holds
ResolvesWhenDefaultAnswers ==
    (returned /\ call.fn = "discoverProvider"
        /\ ~call.default.rejected /\ (call.default.ok => call.default.parses)) =>
        /\ ~ret.threw
        /\ ret.kind \in ProviderKindSchema
        /\ (Unavailable(call.default) /\ Unavailable(call.capabilities)) =>
               ret.kind = "terminal-cli"

\* the capabilities endpoint was unreachable and terminal-cli was returned
FellBackUnreachable ==
    /\ returned /\ call.fn = "discoverProvider" /\ ~ret.threw
    /\ call.default = TextResponse("404") /\ call.capabilities = FetchRejected
    /\ ret.kind = "terminal-cli"

(***************************************************************************)
(* The default provider of the server.  An environment variable is unset   *)
(* or holds a string.                                                      *)
(***************************************************************************)
Unset == [set |-> FALSE, value |-> <<>>]

EnvString(value) == [set |-> TRUE, value |-> value]

\* mutant: a key of blanks counts as a key
hasOpenAiApiKeyUntrimmed(apiKey) == apiKey.set /\ Len(apiKey.value) > 0

hasOpenAiApiKey(apiKey) == apiKey.set /\ Len(Trim(apiKey.value)) > 0

\* capabilities.some/find((capability) => capability.kind === kind)
HasKind(capabilities, kind) ==
    \E i \in 1..Len(capabilities) : capabilities[i].kind = kind

\* mutant: a configured default that is a provider kind is taken as it is
defaultProviderKindUnchecked(wrapped, capabilities, configuredDefault, apiKey) ==
    IF wrapped # NoWrappedCommand THEN wrapped.inferredKind
    ELSE IF capabilities = <<>> THEN "null"
    ELSE IF /\ configuredDefault.set /\ Len(configuredDefault.value) = 1
            /\ configuredDefault.value[1] \in ProviderKindSchema
    THEN configuredDefault.value[1]
    ELSE IF HasKind(capabilities, "ai-sdk") /\ hasOpenAiApiKey(apiKey) THEN "ai-sdk"
    ELSE IF HasKind(capabilities, "terminal-cli") THEN "terminal-cli"
    ELSE IF HasKind(capabilities, "ai-sdk") THEN "ai-sdk"
    ELSE capabilities[1].kind

\* the kind, or "null"
defaultProviderKind(wrapped, capabilities, configuredDefault, apiKey) ==
    IF wrapped # NoWrappedCommand THEN wrapped.inferredKind
    ELSE IF capabilities = <<>> THEN "null"
    ELSE IF /\ configuredDefault.set /\ configuredDefault.value # <<>>
            /\ Len(configuredDefault.value) = 1
            /\ configuredDefault.value[1] \in ProviderKindSchema
            /\ HasKind(capabilities, configuredDefault.value[1])
    THEN configuredDefault.value[1]
    ELSE IF HasKind(capabilities, "ai-sdk") /\ hasOpenAiApiKey(apiKey) THEN "ai-sdk"
    ELSE IF HasKind(capabilities, "terminal-cli") THEN "terminal-cli"
    ELSE IF HasKind(capabilities, "ai-sdk") THEN "ai-sdk"
    ELSE capabilities[1].kind

\* values of BIRDHOUSE_DEFAULT_PROVIDER
ConfiguredDefaults ==
    {Unset, EnvString(<<>>), EnvString(<<"openclaw">>), EnvString(<<"terminal-cli">>),
     EnvString(<<"telnet">>), EnvString(<<SP, "openclaw">>)}

\* values of OPENAI_API_KEY
ApiKeys == {Unset, EnvString(<<>>), EnvString(<<SP, SP>>), EnvString(<<"sk-1">>)}

InitDefault ==
    /\ wrappedCommand \in {NoWrappedCommand, WrappedConfig(<<"claude">>)}
    /\ call \in {[fn |-> "defaultProviderKind",
                  capabilities |-> RegistryCapabilityList(ProviderRegistry(adapters)),
                  configuredDefault |-> configuredDefault, apiKey |-> apiKey] :
                    adapters \in SeqsUpTo(AdapterUniverse, MaxAdapters)
                                   \cup {<<Adapter("ai-sdk", 1), Adapter("openclaw", 1),
                                           Adapter("pi-mono", 1), Adapter("terminal-cli", 1)>>},
                    configuredDefault \in ConfiguredDefaults, apiKey \in ApiKeys}
    /\ ret = <<>>
    /\ returned = FALSE
    /\ SseIdle /\ StreamIdle /\ CliIdle /\ SrvIdle /\ MemIdle /\ AppIdle

\* GET /v1/providers/default
GetDefault ==
    /\ call.fn = "defaultProviderKind" /\ ~returned
    /\ LET kind == defaultProviderKind(wrappedCommand, call.capabilities,
                                       call.configuredDefault, call.apiKey)
       IN  ret' = IF kind = "null"
                  THEN [status |-> "503",
                        body |-> JObjOrdered(
                            [error |-> JAtom("no_provider"),
                             message |-> JAtom("No provider is available on this endpoint.")],
                            <<"error", "message">>)]
                  ELSE [status |-> "200", body |-> JObj([kind |-> JAtom(kind)])]
    /\ returned' = TRUE
    /\ UNCHANGED <<restOfFun, call>>

NextDefault == GetDefault

SpecDefault == InitDefault /\ [][NextDefault]_vars

\* BIRDHOUSE_DEFAULT_PROVIDER names a kind the registry holds
NamesRegistered(configuredDefault, capabilities) ==
    /\ configuredDefault.set
    /\ \E kind \in ProviderKindSchema :
         configuredDefault.value = <<kind>> /\ HasKind(capabilities, kind)

\* OPENAI_API_KEY is set to a string that is not blank
KeySet(apiKey) == apiKey.set /\ \E i \in 1..Len(apiKey.value) : apiKey.value[i] # SP

Reported(kind) == ret.status = "200" /\ ret.body = JObj([kind |-> JAtom(kind)])

\* C26: in registry mode, with BIRDHOUSE_DEFAULT_PROVIDER unset or not
\* naming a registered kind, /v1/providers/default reports terminal-cli
\* whenever OPENAI_API_KEY is unset or blank and terminal-cli is registered,
\* and ai-sdk when the key is set and ai-sdk is registered; a configured
\* default that names a registered kind is reported
C26_DefaultWithoutKey ==
    (returned /\ call.fn = "defaultProviderKind" /\ wrappedCommand = NoWrappedCommand) =>
        IF NamesRegistered(call.configuredDefault, call.capabilities)
        THEN Reported(call.configuredDefault.value[1])
        ELSE /\ (~KeySet(call.apiKey) /\ HasKind(call.capabilities, "terminal-cli")) =>
                    Reported("terminal-cli")
             /\ (KeySet(call.apiKey) /\ HasKind(call.capabilities, "ai-sdk")) =>
                    Reported("ai-sdk")

\* C26 witness: ai-sdk and terminal-cli are registered, the key is blank,
\* the configured default names no kind, and terminal-cli is reported
C26_Witness ==
    /\ returned /\ call.fn = "defaultProviderKind" /\ wrappedCommand = NoWrappedCommand
    /\ HasKind(call.capabilities, "ai-sdk") /\ HasKind(call.capabilities, "terminal-cli")
    /\ call.apiKey = EnvString(<<SP, SP>>)
    /\ call.configuredDefault = EnvString(<<"telnet">>)
    /\ Reported("terminal-cli")

(***************************************************************************)
(* The timeout of a wrapped command.  A number is NaN, Infinity, or        *)
(* whole + tenths / 10.                                                    *)
(***************************************************************************)
NaN == [is |-> "NaN", whole |-> 0, tenths |-> 0]

Infinity == [is |-> "Infinity", whole |-> 0, tenths |-> 0]

Finite(n) == [is |-> "finite", whole |-> n.whole, tenths |-> n.tenths]

\* Number(string) for the strings of the environment
ToNumber(s) ==
    IF s = <<>> THEN Finite([whole |-> 0, tenths |-> 0])
    ELSE IF Len(s) = 1 /\ s[1] \in DOMAIN NumberLiterals THEN Finite(NumberLiterals[s[1]])
    ELSE IF s = <<"250">> THEN Finite([whole |-> 250, tenths |-> 0])
    ELSE IF s = <<"180000">> THEN Finite([whole |-> 180000, tenths |-> 0])
    ELSE IF s = <<"Infinity">> THEN Infinity
    ELSE NaN

\* Number.isFinite(n) && n > 0
FinitePositive(n) == n.is = "finite" /\ (n.whole > 0 \/ (n.whole = 0 /\ n.tenths > 0))

\* Math.floor of a finite number
MathFloor(n) == n.whole

\* the timeoutMs of parseCliExtra(contact), if it is defined
parseCliExtra(extra) ==
    IF ZNumber(extra, "timeoutMs") /\ FinitePositive(Finite(NumberOf(extra, "timeoutMs")))
    THEN [defined |-> TRUE, timeoutMs |-> MathFloor(NumberOf(extra, "timeoutMs"))]
    ELSE [defined |-> FALSE, timeoutMs |-> 0]

\* the timeoutMs of resolveCommand(input)
resolveCommand(extra) ==
    IF parseCliExtra(extra).defined THEN parseCliExtra(extra).timeoutMs
    ELSE DEFAULT_CLI_TIMEOUT_MS

\* the timeoutMs of parseWrappedCommandConfig()
parseWrappedCommandConfig(server, wrapped) ==
    LET timeout == ToNumber(IF server.set THEN server.value
                            ELSE IF wrapped.set THEN wrapped.value
                            ELSE <<"180000">>)
    IN  IF FinitePositive(timeout) THEN MathFloor(timeout) ELSE 180000

\* provider.extra of a contact: timeoutMs absent, a number, or no number
TimeoutExtras ==
    {JObj(<<>>), JObj([timeoutMs |-> JAtom("5")]), JObj([timeoutMs |-> JNull]),
     JObj([timeoutMs |-> JBool(TRUE)])}
    \cup {JObj([timeoutMs |-> JNum(lit)]) : lit \in DOMAIN NumberLiterals}

\* BIRDHOUSE_SERVER_TIMEOUT_MS and BIRDHOUSE_WRAPPED_TIMEOUT_MS
TimeoutEnvs ==
    {Unset, EnvString(<<>>), EnvString(<<"abc">>), EnvString(<<"Infinity">>),
     EnvString(<<"250">>), EnvString(<<"0">>), EnvString(<<"-1">>), EnvString(<<"0.5">>),
     EnvString(<<"1.5">>)}

InitTimeout ==
    /\ call \in {[fn |-> "resolveCommand", extra |-> extra, server |-> Unset,
                  wrapped |-> Unset] : extra \in TimeoutExtras}
                \cup {[fn |-> "parseWrappedCommandConfig", extra |-> JNull,
                       server |-> server, wrapped |-> wrapped] :
                         server \in TimeoutEnvs, wrapped \in TimeoutEnvs}
    /\ ret = <<>>
    /\ returned = FALSE
    /\ OnlyFun

\* the CLI adapter resolves the command of a turn
ResolveCommand ==
    /\ call.fn = "resolveCommand" /\ ~returned
    /\ ret' = [timeoutMs |-> resolveCommand(call.extra)]
    /\ returned' = TRUE
    /\ UNCHANGED <<restOfFun, call>>

\* the server reads the configuration of its wrapped command
ParseWrappedCommandConfig ==
    /\ call.fn = "parseWrappedCommandConfig" /\ ~returned
    /\ ret' = [timeoutMs |-> parseWrappedCommandConfig(call.server, call.wrapped)]
    /\ returned' = TRUE
    /\ UNCHANGED <<restOfFun, call>>

NextTimeout == ResolveCommand \/ ParseWrappedCommandConfig

SpecTimeout == InitTimeout /\ [][NextTimeout]_vars

\* the number the configuration gives for the timeout
Configured ==
    IF call.fn = "resolveCommand"
    THEN IF Has(call.extra, "timeoutMs") /\ call.extra.o["timeoutMs"].t = "num"
         THEN Finite(NumberLiterals[call.extra.o["timeoutMs"].s[1]])
         ELSE NaN
    ELSE IF call.server.set THEN ToNumber(call.server.value)
    ELSE IF call.wrapped.set THEN ToNumber(call.wrapped.value)
    ELSE NaN

\* C27: the timeout that arms the wrapper's timer is a positive integer of
\* milliseconds: a configured finite positive value floored to a positive
\* integer, 180000 when the value is absent or invalid; both for the
\* contact's extra.timeoutMs and for the timeout of the wrapped command
C27_PositiveTimeout ==
    (returned /\ call.fn \in {"resolveCommand", "parseWrappedCommandConfig"}) =>
        /\ ret.timeoutMs \in Nat /\ ret.timeoutMs > 0
        /\ ret.timeoutMs = IF FinitePositive(Configured) THEN MathFloor(Configured)
                           ELSE 180000

\* the same for configured values that are absent, invalid or at least 1:
\* holds
PositiveTimeoutFromOne ==
    (returned /\ call.fn \in {"resolveCommand", "parseWrappedCommandConfig"}
        /\ (FinitePositive(Configured) => Configured.whole >= 1)) =>
        /\ ret.timeoutMs \in Nat /\ ret.timeoutMs > 0
        /\ ret.timeoutMs = IF FinitePositive(Configured) THEN MathFloor(Configured)
                           ELSE 180000

\* 1.5 was configured and the timeout is 1
FlooredToOne ==
    /\ returned /\ call.fn = "resolveCommand"
    /\ call.extra = JObj([timeoutMs |-> JNum("1.5")]) /\ ret.timeoutMs = 1

(***************************************************************************)
(* Chat turns over one configuration.  An array is held by reference: the  *)
(* adapter's defaultArgs, the wrapped command's baseArgs, the contact's    *)
(* extra.args and the history are arrays that outlive a turn; "fresh" is   *)
(* the array a turn creates and drops.                                     *)
(***************************************************************************)
ConfigArrays == {"defaultArgs", "baseArgs", "extraArgs", "history"}

ArgLists == {<<>>, <<<<"-p">>>>, <<<<"--msg=", "{prompt}">>>>}

TurnPrompts == {<<"p1">>, <<"p2">>}

History == <<[role |-> "agent", text |-> <<"old">>]>>

normalizeRole(role) ==
    IF role = "agent" THEN "assistant" ELSE IF role = "system" THEN "system" ELSE "user"

\* mutant: the mapped elements are written to the array itself
MapInPlace(array) == array

\* Array.prototype.map returns an array of its own
MapTarget(array) == "fresh"

\* applyPromptToArgs and applyPrompt on the array `args` of the heap: the
\* array returned and the heap after the call
ApplyPromptInHeap(heap, args, prompt, appendPromptIfMissing) ==
    LET resolved == MapTarget(args)
        mapped == [heap EXCEPT ![resolved] = MapPrompt(heap[args], prompt)]
    IN  [returns |-> resolved,
         heap |-> IF appendPromptIfMissing /\ ~hasPlaceholder(heap[args])
                  THEN [mapped EXCEPT ![resolved] = Append(@, prompt)]
                  ELSE mapped]

InitTurns ==
    /\ arrays \in {[ref \in ConfigArrays \cup {"fresh"} |->
                      CASE ref = "defaultArgs" -> d
                        [] ref = "baseArgs" -> b
                        [] ref = "extraArgs" -> e
                        [] ref = "history" -> History
                        [] OTHER -> <<>>] :
                    d \in ArgLists, b \in ArgLists, e \in ArgLists}
    /\ wrappedStdin \in BOOLEAN
    /\ spawned = <<>>
    /\ OnlyMem

\* a turn of a CLI-wrapped adapter: resolveCommand, then spawn
CliTurn(prompt, hasArgs, stdin) ==
    /\ Len(spawned) < MaxChatTurns
    /\ LET rawArgs == IF hasArgs THEN "extraArgs" ELSE "defaultArgs"
           applied == ApplyPromptInHeap(arrays, rawArgs, prompt, ~stdin)
       IN  /\ spawned' = Append(spawned, [by |-> "cli", prompt |-> prompt,
                                          args |-> applied.heap[applied.returns]])
           /\ arrays' = [applied.heap EXCEPT !["fresh"] = <<>>]
    /\ UNCHANGED <<restOfMem, wrappedStdin>>

\* a turn of the wrapped command: runWrappedCommandPrompt
WrappedTurn(prompt) ==
    /\ Len(spawned) < MaxChatTurns
    /\ LET applied == ApplyPromptInHeap(arrays, "baseArgs", prompt, ~wrappedStdin)
       IN  /\ spawned' = Append(spawned, [by |-> "wrapped", prompt |-> prompt,
                                          args |-> applied.heap[applied.returns]])
           /\ arrays' = [applied.heap EXCEPT !["fresh"] = <<>>]
    /\ UNCHANGED <<restOfMem, wrappedStdin>>

\* a turn of the hosted-model adapter: the history is mapped to messages and
\* the prompt is the last message
HostedTurn(prompt) ==
    /\ Len(spawned) < MaxChatTurns
    /\ LET historyMessages == MapTarget("history")
           mapped == [arrays EXCEPT ![historyMessages] =
                        [i \in 1..Len(arrays["history"]) |->
                            [role |-> normalizeRole(arrays["history"][i].role),
                             content |-> arrays["history"][i].text]]]
       IN  /\ spawned' = Append(spawned, [by |-> "hosted", prompt |-> prompt,
                                          args |-> Append(mapped[historyMessages],
                                                          [role |-> "user", content |-> prompt])])
           /\ arrays' = [mapped EXCEPT !["fresh"] = <<>>]
    /\ UNCHANGED <<restOfMem, wrappedStdin>>

NextTurns ==
    \/ \E prompt \in TurnPrompts, hasArgs \in BOOLEAN, stdin \in BOOLEAN :
         CliTurn(prompt, hasArgs, stdin)
    \/ \E prompt \in TurnPrompts : WrappedTurn(prompt)
    \/ \E prompt \in TurnPrompts : HostedTurn(prompt)

SpecTurns == InitTurns /\ [][NextTurns]_vars

\* the prompt is in no argument of the list
PromptAbsent(prompt, args) == \A i \in 1..Len(args) : ~Includes(args[i], prompt)

\* no argument list holds the prompt of an earlier turn
NoEarlierPrompt ==
    \A h, i \in 1..Len(spawned) :
        (h < i /\ spawned[i].by # "hosted" /\ spawned[h].prompt # spawned[i].prompt) =>
            PromptAbsent(spawned[h].prompt, spawned[i].args)

\* C28: a chat turn modifies neither its inputs nor the configuration: the
\* CLI adapter's default args, the wrapped command's base args, the
\* contact's extra.args and the history are after every turn what they were
\* before it, and no prompt of one turn is in the argument list of a later
\* turn
C28_TurnsLeaveInputs ==
    /\ [][\A ref \in ConfigArrays : arrays'[ref] = arrays[ref]]_vars
    /\ []NoEarlierPrompt

\* C28 witness: two turns of the CLI adapter with default args -p; the
\* second was given the arguments -p and its own prompt
C28_Witness ==
    /\ Len(spawned) = 2
    /\ spawned[1].by = "cli" /\ spawned[1].prompt = <<"p1">>
    /\ spawned[1].args = <<<<"-p">>, <<"p1">>>>
    /\ spawned[2].by = "cli" /\ spawned[2].prompt = <<"p2">>
    /\ spawned[2].args = <<<<"-p">>, <<"p2">>>>
    /\ arrays["defaultArgs"] = <<<<"-p">>>>

(***************************************************************************)
(* joinUrl of the client.                                                  *)
(***************************************************************************)
SLASH == "/"

\* mutant: /\/$/ in place of /\/+$/
ReplaceTrailingSlash(baseUrl) ==
    IF baseUrl # <<>> /\ baseUrl[Len(baseUrl)] = SLASH
    THEN SubSeq(baseUrl, 1, Len(baseUrl) - 1)
    ELSE baseUrl

\* baseUrl.replace(/\/+$/, ""): the match starts at the first position from
\* which only slashes follow up to the end
ReplaceTrailingSlashes(baseUrl) ==
    LET starts == {i \in 1..Len(baseUrl) : \A k \in i..Len(baseUrl) : baseUrl[k] = SLASH}
    IN  IF starts = {} THEN baseUrl
        ELSE SubSeq(baseUrl, 1, (CHOOSE i \in starts : \A k \in starts : i <= k) - 1)

joinUrl(baseUrl, path) ==
    LET trimmedBase == ReplaceTrailingSlashes(baseUrl)
        normalizedPath == IF StartsWith(path, <<SLASH>>) THEN path ELSE <<SLASH>> \o path
    IN  trimmedBase \o normalizedPath

InitJoin ==
    /\ call \in [fn : {"joinUrl"}, baseUrl : SeqsUpTo({"h", SLASH}, MaxUrl),
                 path : SeqsUpTo({"v", SLASH}, MaxUrl)]
    /\ ret = <<>>
    /\ returned = FALSE
    /\ OnlyFun

JoinUrl ==
    /\ call.fn = "joinUrl" /\ ~returned
    /\ ret' = joinUrl(call.baseUrl, call.path)
    /\ returned' = TRUE
    /\ UNCHANGED <<restOfFun, call>>

NextJoin == JoinUrl

SpecJoin == InitJoin /\ [][NextJoin]_vars

\* s without the slashes at its end
RECURSIVE WithoutTrailingSlashes(_)
WithoutTrailingSlashes(s) ==
    IF s # <<>> /\ s[Len(s)] = SLASH THEN WithoutTrailingSlashes(SubSeq(s, 1, Len(s) - 1))
    ELSE s

\* the number of slashes s begins with
RECURSIVE LeadingSlashes(_)
LeadingSlashes(s) ==
    IF s # <<>> /\ Head(s) = SLASH THEN 1 + LeadingSlashes(Tail(s)) ELSE 0

\* C29: for a base with any number of trailing slashes and a path with no
\* or one leading slash, joinUrl is the base without its trailing slashes,
\* one slash, and the path without its leading slash; for a base without
\* trailing slash and a path with one leading slash that is base and path
\* put together
C29_JoinUrl ==
    (returned /\ call.fn = "joinUrl" /\ LeadingSlashes(call.path) <= 1) =>
        /\ ret = WithoutTrailingSlashes(call.baseUrl) \o <<SLASH>>
                   \o SubSeq(call.path, LeadingSlashes(call.path) + 1, Len(call.path))
        /\ (WithoutTrailingSlashes(call.baseUrl) = call.baseUrl
              /\ LeadingSlashes(call.path) = 1) => ret = call.baseUrl \o call.path

\* C29 witness: a base with two trailing slashes and a path with a leading
\* slash were joined with one slash
C29_Witness ==
    /\ returned /\ call.fn = "joinUrl"
    /\ call.baseUrl = <<"h", SLASH, SLASH>> /\ call.path = <<SLASH, "v">>
    /\ ret = <<"h", SLASH, "v">>

(***************************************************************************)
(* The order of the events of a turn.                                      *)
(***************************************************************************)
\* the generators that run on the endpoint itself: the hosted-model
\* adapter, the CLI-wrapped adapters and the wrapped-command stream
LocalGenerators == {"ai-sdk", WrappedCommand} \cup CliKinds

IsTyping(e, isTyping) ==
    EventType(e) = "typing" /\ e.o.isTyping.s = <<IF isTyping THEN "true" ELSE "false">>

\* the events are in the order of a turn
InTurnOrder(ev) ==
    /\ \A i \in 1..Len(ev) :
         EventType(ev[i]) \in {"token", "attachment", "typing"} =>
            /\ \E h \in 1..(i - 1) : EventType(ev[h]) = "message_start"
            /\ \A h \in 1..(i - 1) : EventType(ev[h]) \notin Closing
    /\ \A i \in 1..Len(ev) :
         IsTyping(ev[i], FALSE) => \E h \in 1..(i - 1) : IsTyping(ev[h], TRUE)
    /\ \A i \in 1..Len(ev) : EventType(ev[i]) \in Closing => i = Len(ev)

\* q begins with p
IsPrefix(p, q) == Len(p) <= Len(q) /\ SubSeq(q, 1, Len(p)) = p

\* what is written stays written, and nothing is written after the close
WrittenOnlyGrows ==
    gen \in LocalGenerators =>
        (IsPrefix(written, written') /\ (closed => written' = written))

\* C30: in the sequence of a turn of the hosted-model adapter, a CLI-wrapped
\* adapter or the wrapped-command stream, ended by message_end or by the
\* error event of the encoder, token, attachment and typing events come
\* after message_start and before the closing event, typing(false) comes
\* only after a typing(true), and no event follows the closing event
C30_EventOrder ==
    /\ [](gen \in LocalGenerators => InTurnOrder(TypedEvents(written)))
    /\ [][WrittenOnlyGrows]_vars

\* C30 witness: a turn of the hosted-model adapter failed after a token and
\* was closed by the error event
C30_Witness ==
    /\ gen = "ai-sdk" /\ closed /\ failure.thrown
    /\ LET ev == TypedEvents(written)
       IN  /\ Len(ev) = 4
           /\ EventType(ev[1]) = "message_start" /\ IsTyping(ev[2], TRUE)
           /\ EventType(ev[3]) = "token" /\ EventType(ev[4]) = "error"

(***************************************************************************)
(* Prompts with $ sequences.                                               *)
(***************************************************************************)
HoldsPlaceholder(arg) == \E k \in 1..Len(arg) : <<arg[k]>> = Placeholder

\* C31: for every prompt, also one with $&, $$ or $' or with the text
\* {prompt}, each argument after substitution is the argument with every
\* placeholder replaced by the prompt character for character, and an
\* argument without placeholder is unchanged
C31_PromptVerbatim ==
    returned =>
        \A i \in 1..Len(call.args) :
            ret[i] = IF HoldsPlaceholder(call.args[i])
                     THEN Substituted(call.args[i], call.prompt)
                     ELSE call.args[i]

\* the same for prompts in which no $ is followed by $, &, ` or ': holds
VerbatimWithoutPatterns ==
    (returned /\ \A k \in 1..(Len(call.prompt) - 1) :
                    call.prompt[k] = DOLLAR =>
                        call.prompt[k + 1] \notin {DOLLAR, "&", "`", "'"}) =>
        \A i \in 1..Len(call.args) :
            ret[i] = IF HoldsPlaceholder(call.args[i])
                     THEN Substituted(call.args[i], call.prompt)
                     ELSE call.args[i]

\* a prompt that is the placeholder text was written once, as it is
PlaceholderPromptKept ==
    /\ returned /\ call.prompt = <<"{prompt}">>
    /\ call.args = << <<"--msg=", "{prompt}">> >>
    /\ ret = << <<"--msg=", "{prompt}">> >>

(***************************************************************************)
(* The text of message_end and the tokens of the turn.                     *)
(***************************************************************************)
\* the texts of the token events of the turn, put together in order
TokenText ==
    LET tokens == SelectSeq(produced, LAMBDA e : EventType(e) = "token")
    IN  Flatten([i \in 1..Len(tokens) |-> tokens[i].o.text.s], 1, Len(tokens))

\* the turn was generated on the endpoint, or from the JSON body of a
\* remote endpoint, and has ended with message_end
LocalTurnEnded ==
    /\ pc = "returned"
    /\ \/ gen \in LocalGenerators
       \/ gen \in RemoteKinds /\ response.type = "json"

\* C32: in every successful turn of the hosted-model adapter, a CLI-wrapped
\* adapter, the wrapped-command stream or the JSON envelope of a remote
\* adapter, the text of message_end is the texts of the token events of the
\* turn put together in order
C32_EndTextIsTokens ==
    LocalTurnEnded => produced[Len(produced)].o.text.s = TokenText

\* the same for the hosted-model adapter and the JSON envelope: holds
HostedEndTextIsTokens ==
    (LocalTurnEnded /\ gen \in {"ai-sdk"} \cup RemoteKinds) =>
        produced[Len(produced)].o.text.s = TokenText

\* a hosted-model turn ended with the text of its two tokens
HostedTwoTokens ==
    /\ LocalTurnEnded /\ gen = "ai-sdk"
    /\ Len(SelectSeq(produced, LAMBDA e : EventType(e) = "token")) = 2
    /\ produced[Len(produced)].o.text.s = TokenText

(***************************************************************************)
(* The end of a CLI-wrapped turn and the end of its subprocess.            *)
(***************************************************************************)
\* the turn goes on to message_end: the promise of the wrapper resolved
\* and, for the adapter, result.exitCode is 0
TurnSucceeds ==
    /\ outcome.state = "resolved"
    /\ wrapper = RunCliCommand => outcome.exitCode = "0"

\* C33: a CLI-wrapped turn ends with message_end only if the subprocess
\* exited by itself with exit code 0; a close that reports no exit code,
\* after a signal ended the process, makes the turn fail
C33_SuccessOnlyOnExitZero ==
    TurnSucceeds => closeCode = "0"

\* the same while no close reports a null code: holds
SuccessOnlyOnExitZeroWithCode ==
    (TurnSucceeds /\ closeCode # "null") => closeCode = "0"

\* the subprocess exited with code 1 and the turn does not succeed
FailedOnExitOne ==
    closeCode = "1" /\ firstTerminal = "close" /\ ~TurnSucceeds /\ outcome.state # "pending"

(***************************************************************************)
(* The termination signal of the wrapper.                                  *)
(***************************************************************************)
\* the process closed or failed to start before the timeout fired
EndedBeforeTimeout == firstTerminal \in {"close", "error"}

SignalOnlyOnTimeout ==
    /\ killSignals <= 1
    /\ killSignals = 1 => firstTerminal = "timeout"
    /\ EndedBeforeTimeout =>
          /\ timer = "cleared"
          /\ killSignals = 0
          /\ outcome # Rejected(TimedOutMessage(wrapper, timeoutMs))

\* a cancelled timer stays cancelled and no signal follows
StaysCancelled ==
    timer = "cleared" => (timer' = "cleared" /\ killSignals' = killSignals)

DecodedAsWritten(frame) ==
    LET json == JsonParse(frame)
    IN  /\ json.ok
        /\ StreamEventSchema(json.val).success
        /\ Len(ClientDecodeData(frame)) = 1
        /\ EventType(ClientDecodeData(frame)[1]) = EventType(json.val)

\* C35: every event frame the server writes on /v1/chat.stream, the error
\* event of the catch block for every failure text included, is a valid
\* StreamEvent, and the client decodes it as an event of the same type
C35_FramesAreStreamEvents ==
    gen \in ServerGenerators =>
        \A i \in 1..Len(written) :
            written[i] # DoneMarker => DecodedAsWritten(written[i])

\* the same while the message of the failure is not empty: holds
FramesAreStreamEventsWithMessage ==
    (gen \in ServerGenerators /\ (failure.thrown => failure.message # <<>>)) =>
        \A i \in 1..Len(written) :
            written[i] # DoneMarker => DecodedAsWritten(written[i])

\* a failure text with quotes and a newline was written as an error event
\* that the client decodes as an error event
QuotedFailureDecoded ==
    /\ gen \in ServerGenerators /\ closed /\ failure.thrown
    /\ Contains(failure.message, <<QUOTE>>)
    /\ DecodedAsWritten(written[Len(written)])
    /\ EventType(ClientDecodeData(written[Len(written)])[1]) = "error"

(***************************************************************************)
(* Isolation of the push tokens of a pair.                                 *)
(***************************************************************************)
\* the tokens registered with exactly this contact id and thread id
TokensOfPair(contactId, threadId) ==
    {r.token : r \in {q \in registered : q.contactId = contactId /\ q.threadId = threadId}}

\* C36: after any sequence of registrations, a dispatch for the pair (c, t)
\* delivers only to tokens registered with exactly contactId = c and
\* threadId = t, for ids with a ':' too
C36_TokensIsolated ==
    \A j \in DOMAIN dispatches :
        dispatches[j].to \subseteq TokensOfPair(dispatches[j].contactId, dispatches[j].threadId)

\* the same while no registered id holds a ':': holds
TokensIsolatedWithoutColon ==
    (\A r \in registered : ~Contains(r.contactId, <<":">>) /\ ~Contains(r.threadId, <<":">>)) =>
        \A j \in DOMAIN dispatches :
            dispatches[j].to \subseteq
                TokensOfPair(dispatches[j].contactId, dispatches[j].threadId)

\* a token is registered for (a:b, c) and a dispatch for (a, c) reached no one
OtherPairNotReached ==
    \E j \in DOMAIN dispatches :
        /\ dispatches[j].contactId = <<"a">> /\ dispatches[j].threadId = <<"c">>
        /\ dispatches[j].result = "ok" /\ dispatches[j].to = {}
        /\ \E r \in registered : r.contactId = <<"a", ":", "b">>

(***************************************************************************)
(* The default provider and the capabilities of one server.                *)
(***************************************************************************)
\* GET /v1/providers/capabilities of the server whose registry is the one
\* of the call
GetCapabilitiesOfServer ==
    /\ call.fn = "defaultProviderKind" /\ reply = NoReply
    /\ reply' = [route |-> "/v1/providers/capabilities", status |-> "200",
                 body |-> commandCapabilitiesOver(call.capabilities)]
    /\ UNCHANGED <<sseVars, streamVars, cliVars, funVars, memVars, appVars,
                   wrappedCommand, consulted,
                   pushRegistry, registered, scheduledJobs, dispatches, errorLog,
                   unhandled, turns, sent, lastRejected, nextJob>>

NextProviders == GetDefault \/ GetCapabilitiesOfServer

SpecProviders == InitDefault /\ [][NextProviders]_vars

\* both routes have answered
BothAnswered == returned /\ call.fn = "defaultProviderKind" /\ reply # NoReply

\* C37: whenever /v1/providers/default returns a kind, the kind is one of
\* the kinds /v1/providers/capabilities lists, in wrapped-command mode and
\* in registry mode, for every BIRDHOUSE_DEFAULT_PROVIDER and
\* OPENAI_API_KEY; it returns no kind only when the list is empty
C37_DefaultIsListed ==
    BothAnswered =>
        IF ret.status = "200"
        THEN \E i \in 1..Len(reply.body) : ret.body = JObj([kind |-> JAtom(reply.body[i].kind)])
        ELSE ret.status = "503" /\ reply.body = <<>>

\* C37 witness: the configured default openclaw is not registered, the key
\* is set, and the default reported is the listed terminal-cli
C37_Witness ==
    /\ BothAnswered /\ wrappedCommand = NoWrappedCommand
    /\ call.configuredDefault = EnvString(<<"openclaw">>)
    /\ call.apiKey = EnvString(<<"sk-1">>)
    /\ Len(reply.body) = 1 /\ reply.body[1].kind = "terminal-cli"
    /\ Reported("terminal-cli")

(***************************************************************************)
(* The thread store of the CLI app (apps/cli/src/store.ts) and the         *)
(* sendMessage of the CLI app (apps/cli/src/index.ts).                     *)
(***************************************************************************)
MaxReceived == 3   \* events chatStream yields to one sendMessage

\* threads[threadId] ?? []
ThreadOf(store, threadId) == IF threadId \in DOMAIN store THEN store[threadId] ELSE <<>>

Message(id, role, text, status) ==
    [id |-> id, role |-> role, text |-> text, status |-> status, attachments |-> 0]

\* the arrow functions handed to updateLastThreadMessage and to map: the
\* fields they overwrite
Update(setText, text, setStatus, status) ==
    [setText |-> setText, text |-> text, setStatus |-> setStatus, status |-> status,
     addAttachment |-> FALSE]

ApplyUpdate(message, update) ==
    [message EXCEPT !.text = IF update.setText THEN update.text ELSE @,
                    !.status = IF update.setStatus THEN update.status ELSE @,
                    !.attachments = IF update.addAttachment THEN @ + 1 ELSE @]

\* what appendThreadMessage saves, given the threads it loaded
Appended(loaded, threadId, message) ==
    (threadId :> Append(ThreadOf(loaded, threadId), message)) @@ loaded

\* what updateLastThreadMessage saves, given the threads it loaded; an empty
\* thread is left as it is, and nothing is saved
UpdatedLast(loaded, threadId, update) ==
    LET thread == ThreadOf(loaded, threadId)
    IN  IF Len(thread) = 0 THEN loaded
        ELSE (threadId :> [thread EXCEPT ![Len(thread)] = ApplyUpdate(@, update)]) @@ loaded

\* the events chatStream yields
ChatEvents ==
    { MessageStartEvent("m1", "t1"), TypingEvent(TRUE), TypingEvent(FALSE),
      TokenEvent(<<"a">>), TokenEvent(<<SP>>), AttachmentEvent("file", "f"),
      MessageEndEvent("m1", <<"b">>), MessageEndEvent("m1", <<>>),
      ErrorEvent("provider_error", <<"x">>, FALSE) }

\* the threads before the message is sent
StoredBefore == {<<>>, "t1" :> <<Message("u0", "user", <<"o">>, "sent")>>}

NotSending(app) ==
    [pc |-> "start", app |-> app, composerText |-> <<"h">>, streamedText |-> <<>>,
     receivedMessageEnd |-> FALSE, typing |-> FALSE, isSending |-> FALSE,
     events |-> <<>>, transportFailed |-> FALSE, alerts |-> 0,
     pendingAttachments |-> 0, selected |-> TRUE, contactDeleted |-> FALSE]

InitCliSend ==
    /\ threads \in StoredBefore
    /\ sending = NotSending("cli")
    /\ storeOps = <<>>
    /\ OnlyApp

\* sendMessage up to the first event: the user message and the agent
\* placeholder are appended
CliSendStart ==
    /\ sending.app = "cli" /\ sending.pc = "start"
    /\ threads' = Appended(Appended(threads, "t1",
                                    Message("u1", "user", sending.composerText, "sent")),
                           "t1", Message("a1", "agent", <<>>, "streaming"))
    /\ sending' = [sending EXCEPT !.pc = "streaming"]
    /\ UNCHANGED <<restOfApp, storeOps>>

\* the body of the for await loop for one event
CliSendEvent(event) ==
    /\ sending.app = "cli" /\ sending.pc = "streaming"
    /\ Len(sending.events) < MaxReceived
    /\ LET streamedText == IF EventType(event) = "token"
                           THEN sending.streamedText \o event.o.text.s
                           ELSE sending.streamedText
           update ==
               CASE EventType(event) = "token" -> Update(TRUE, streamedText, FALSE, "")
                 [] EventType(event) = "message_end" ->
                        Update(TRUE, IF streamedText # <<>> THEN streamedText
                                     ELSE event.o.text.s, TRUE, "received")
                 [] EventType(event) = "error" -> Update(FALSE, <<>>, TRUE, "failed")
                 [] OTHER -> Update(FALSE, <<>>, FALSE, "")
       IN  /\ threads' = UpdatedLast(threads, "t1", update)
           /\ sending' = [sending EXCEPT !.streamedText = streamedText,
                                         !.events = Append(@, EventType(event)),
                                         !.pc = IF EventType(event) = "error"
                                                THEN "threw" ELSE @]
    /\ UNCHANGED <<restOfApp, storeOps>>

\* chatStream is done: the loop ends and sendMessage returns
CliSendStreamEnds ==
    /\ sending.app = "cli" /\ sending.pc = "streaming"
    /\ sending' = [sending EXCEPT !.pc = "returned"]
    /\ UNCHANGED <<restOfApp, threads, storeOps>>

\* chatStream throws (the fetch failed, the status was not ok, a frame did
\* not parse): nothing catches it, sendMessage throws
CliSendStreamThrows ==
    /\ sending.app = "cli" /\ sending.pc = "streaming"
    /\ sending' = [sending EXCEPT !.pc = "threw", !.transportFailed = TRUE]
    /\ UNCHANGED <<restOfApp, threads, storeOps>>

NextCliSend ==
    \/ CliSendStart
    \/ \E event \in ChatEvents : CliSendEvent(event)
    \/ CliSendStreamEnds
    \/ CliSendStreamThrows

SpecCliSend == InitCliSend /\ [][NextCliSend]_vars

SendFinished == sending.pc \in {"returned", "threw"}

Received(type) == \E i \in 1..Len(sending.events) : sending.events[i] = type

\* the agent placeholder messages of the thread
Placeholders == {i \in 1..Len(ThreadOf(threads, "t1")) : ThreadOf(threads, "t1")[i].id = "a1"}

PlaceholderStatusIn(statuses) ==
    \A i \in Placeholders : ThreadOf(threads, "t1")[i].status \in statuses

\* what the finished sendMessage has left of the placeholder
PlaceholderSettled ==
    /\ PlaceholderStatusIn({"received", "failed"})
    /\ Received("error") => PlaceholderStatusIn({"failed"})
    /\ Received("message_end") /\ ~Received("error") => PlaceholderStatusIn({"received"})
    /\ ~Received("message_end") /\ ~Received("error") => PlaceholderStatusIn({"failed"})

\* C38: once the sendMessage of the CLI has returned or thrown, its agent
\* placeholder is not "streaming": it is "received" after a message_end and
\* "failed" after an error event, after a failure of chatStream and after a
\* stream that ended with neither
C38_CliPlaceholderSettled == [](sending.app = "cli" /\ SendFinished => PlaceholderSettled)

\* the same for the turns in which a message_end or an error event arrived
CliPlaceholderSettledWhenClosed ==
    [](sending.app = "cli" /\ SendFinished
         /\ (Received("message_end") \/ Received("error")) => PlaceholderSettled)

\* a token arrived, then chatStream threw
CliThrewAfterToken ==
    /\ sending.app = "cli" /\ sending.pc = "threw" /\ sending.transportFailed
    /\ Received("token") /\ PlaceholderStatusIn({"streaming"})

(***************************************************************************)
(* The sendMessage of the mobile app (App.tsx).  sending.typing is         *)
(* typingByThread[selectedThreadId], sending.isSending is isSending.       *)
(***************************************************************************)

\* (current[selectedThreadId] ?? []).map(message => message.id === id ? ... : message)
MappedById(current, threadId, id, update) ==
    LET thread == ThreadOf(current, threadId)
    IN  (threadId :> [i \in 1..Len(thread) |->
                        IF thread[i].id = id THEN ApplyUpdate(thread[i], update)
                        ELSE thread[i]]) @@ current

\* a finally block that leaves the typing indicator as it is
SendFinallyKeepsTyping(s) == [s EXCEPT !.isSending = FALSE, !.pc = "returned"]

\* the finally block of sendMessage
SendFinally(s) == [s EXCEPT !.typing = FALSE, !.isSending = FALSE, !.pc = "returned"]

\* the catch block of sendMessage
SendCatch(current) == MappedById(current, "t1", "a1", Update(FALSE, <<>>, TRUE, "failed"))

InitMobileSend ==
    /\ threads \in StoredBefore
    /\ sending \in {[NotSending("mobile") EXCEPT !.composerText = composerText,
                                                  !.pendingAttachments = pendingAttachments,
                                                  !.selected = selected] :
                      composerText \in {<<"h">>, <<SP>>, <<>>},
                      pendingAttachments \in {0, 1}, selected \in BOOLEAN}
    /\ storeOps = <<>>
    /\ OnlyApp

\* sendMessage up to the first event
MobileSendStart ==
    /\ sending.app = "mobile" /\ sending.pc = "start"
    /\ IF \/ ~sending.selected
          \/ Len(Trim(sending.composerText)) = 0 /\ sending.pendingAttachments = 0
       THEN /\ sending' = [sending EXCEPT !.pc = "returned"]
            /\ UNCHANGED threads
       ELSE /\ threads' =
                Appended(Appended(threads, "t1",
                                  [Message("u1", "user", Trim(sending.composerText), "sent")
                                     EXCEPT !.attachments = sending.pendingAttachments]),
                         "t1", Message("a1", "agent", <<>>, "streaming"))
            /\ sending' = [sending EXCEPT !.pc = "streaming", !.isSending = TRUE,
                                          !.typing = TRUE, !.composerText = <<>>,
                                          !.pendingAttachments = 0]
    /\ UNCHANGED <<restOfApp, storeOps>>

\* the body of the for await loop for one event; an error event throws, and
\* the catch and the finally block run
MobileSendEvent(event) ==
    /\ sending.app = "mobile" /\ sending.pc = "streaming"
    /\ Len(sending.events) < MaxReceived
    /\ LET type == EventType(event)
           accumulatedText == IF type = "token" THEN sending.streamedText \o event.o.text.s
                              ELSE sending.streamedText
           seen == [sending EXCEPT !.streamedText = accumulatedText,
                                   !.events = Append(@, type)]
       IN  CASE type = "typing" ->
                  /\ sending' = [seen EXCEPT !.typing = IsTyping(event, TRUE)]
                  /\ UNCHANGED threads
             [] type = "token" ->
                  /\ sending' = seen
                  /\ threads' = MappedById(threads, "t1", "a1",
                                           Update(TRUE, accumulatedText, FALSE, ""))
             [] type = "attachment" ->
                  /\ sending' = seen
                  /\ threads' = MappedById(threads, "t1", "a1",
                                           [Update(FALSE, <<>>, FALSE, "")
                                              EXCEPT !.addAttachment = TRUE])
             [] type = "message_end" ->
                  /\ sending' = [seen EXCEPT !.receivedMessageEnd = TRUE, !.typing = FALSE]
                  /\ threads' = MappedById(threads, "t1", "a1",
                                           Update(TRUE, IF accumulatedText # <<>>
                                                        THEN accumulatedText
                                                        ELSE event.o.text.s,
                                                  TRUE, "received"))
             [] type = "error" ->
                  /\ sending' = SendFinally([seen EXCEPT !.alerts = @ + 1])
                  /\ threads' = SendCatch(threads)
             [] OTHER ->
                  /\ sending' = seen
                  /\ UNCHANGED threads
    /\ UNCHANGED <<restOfApp, storeOps>>

\* chatStream is done: the code after the loop, then the finally block
MobileSendStreamEnds ==
    /\ sending.app = "mobile" /\ sending.pc = "streaming"
    /\ LET hasText == Len(Trim(sending.streamedText)) > 0
       IN  IF sending.receivedMessageEnd
           THEN /\ sending' = SendFinally(sending)
                /\ UNCHANGED threads
           ELSE /\ threads' = MappedById(threads, "t1", "a1",
                                         Update(TRUE, sending.streamedText, TRUE,
                                                IF hasText THEN "received" ELSE "failed"))
                /\ sending' = SendFinally([sending EXCEPT
                                             !.alerts = IF hasText THEN @ ELSE @ + 1])
    /\ UNCHANGED <<restOfApp, storeOps>>

\* chatStream throws: the catch block, then the finally block
MobileSendStreamThrows ==
    /\ sending.app = "mobile" /\ sending.pc = "streaming"
    /\ threads' = SendCatch(threads)
    /\ sending' = SendFinally([sending EXCEPT !.transportFailed = TRUE, !.alerts = @ + 1])
    /\ UNCHANGED <<restOfApp, storeOps>>

\* the user deletes the contact, and its conversation with it
DeleteContact ==
    /\ sending.app = "mobile" /\ sending.pc # "start" /\ sending.selected
    /\ ~sending.contactDeleted
    /\ threads' = [threadId \in DOMAIN threads \ {"t1"} |-> threads[threadId]]
    /\ sending' = [sending EXCEPT !.contactDeleted = TRUE, !.typing = FALSE]
    /\ UNCHANGED <<restOfApp, storeOps>>

NextMobileSend ==
    \/ MobileSendStart
    \/ \E event \in ChatEvents : MobileSendEvent(event)
    \/ MobileSendStreamEnds
    \/ MobileSendStreamThrows
    \/ DeleteContact

SpecMobileSend == InitMobileSend /\ [][NextMobileSend]_vars

MaxOps == 2   \* store operations

\* the id of the last message of a thread, the one an update is meant for
LastId(store, threadId) ==
    IF Len(ThreadOf(store, threadId)) = 0 THEN "none"
    ELSE ThreadOf(store, threadId)[Len(ThreadOf(store, threadId))].id

StoreOp(kind, threadId, id, text) ==
    [kind |-> kind, threadId |-> threadId,
     message |-> Message(id, "user", <<"h">>, "sent"),
     update |-> Update(TRUE, text, FALSE, ""),
     pc |-> "start", loaded |-> <<>>, target |-> "none", overlapped |-> FALSE]

OpIds == <<"m1", "m2", "m3">>

OpTexts == <<<<"x">>, <<"y">>, <<"z">>>>

InitStore ==
    /\ threads \in StoredBefore
                     \cup {"t1" :> <<Message("u1", "user", <<"h">>, "sent"),
                                     Message("a1", "agent", <<>>, "streaming")>>}
    /\ storeOps \in {[i \in 1..MaxOps |-> StoreOp(kinds[i], ids[i], OpIds[i], OpTexts[i])] :
                       kinds \in [1..MaxOps -> {"append", "update"}],
                       ids \in [1..MaxOps -> {"t1", "t2"}]}
    /\ sending = [pc |-> "idle"]
    /\ OnlyApp

InFlight(i) == storeOps[i].pc \in {"called", "loaded"}

\* appendThreadMessage or updateLastThreadMessage is called
CallStoreOp(i) ==
    /\ storeOps[i].pc = "start"
    /\ storeOps' = [storeOps EXCEPT
                      ![i].pc = "called",
                      ![i].target = LastId(threads, storeOps[i].threadId),
                      ![i].overlapped = \E j \in DOMAIN storeOps : InFlight(j)]
    /\ UNCHANGED <<restOfApp, threads, sending>>

\* const threads = await loadThreads()
LoadThreads(i) ==
    /\ storeOps[i].pc = "called"
    /\ storeOps' = [storeOps EXCEPT ![i].pc = "loaded", ![i].loaded = threads]
    /\ UNCHANGED <<restOfApp, threads, sending>>

\* the rest of the operation: await saveThreads(threads), or the return of
\* updateLastThreadMessage for an empty thread
SaveThreads(i) ==
    /\ storeOps[i].pc = "loaded"
    /\ LET op == storeOps[i]
       IN  threads' =
             IF op.kind = "append" THEN Appended(op.loaded, op.threadId, op.message)
             ELSE IF Len(ThreadOf(op.loaded, op.threadId)) = 0 THEN threads
             ELSE UpdatedLast(op.loaded, op.threadId, op.update)
    /\ storeOps' = [storeOps EXCEPT ![i].pc = "done"]
    /\ UNCHANGED <<restOfApp, sending>>

NextStore ==
    \E i \in DOMAIN storeOps : CallStoreOp(i) \/ LoadThreads(i) \/ SaveThreads(i)

SpecStore == InitStore /\ [][NextStore]_vars

AllStored == storeOps # <<>> /\ \A i \in DOMAIN storeOps : storeOps[i].pc = "done"

Stored(threadId) == {ThreadOf(threads, threadId)[k] : k \in 1..Len(ThreadOf(threads, threadId))}

\* the appended message of operation i is in its thread
AppendKept(i) ==
    storeOps[i].kind = "append" =>
        \E message \in Stored(storeOps[i].threadId) : message.id = storeOps[i].message.id

\* the update of operation i went to the message that was last when it was
\* called: no other message carries its text, and that message carries the
\* text of an update that was called for it
UpdateOnTarget(i) ==
    storeOps[i].kind = "update" /\ storeOps[i].target # "none" =>
        \A message \in Stored(storeOps[i].threadId) :
            IF message.id = storeOps[i].target
            THEN \E j \in DOMAIN storeOps :
                    /\ storeOps[j].kind = "update" /\ storeOps[j].target = message.id
                    /\ message.text = storeOps[j].update.text
            ELSE message.text # storeOps[i].update.text

NothingLost == \A i \in DOMAIN storeOps : AppendKept(i) /\ UpdateOnTarget(i)

\* C40: when the store operations are done, the stored threads hold every
\* appended message and every update went to the message it was called for,
\* however the operations interleaved
C40_StoreLosesNothing == AllStored => NothingLost

\* the same for operations of which none was called while another was in
\* flight
NothingLostInTurn ==
    AllStored /\ (\A i \in DOMAIN storeOps : ~storeOps[i].overlapped) => NothingLost

\* two appends to different threads overlapped, and one message is gone
AppendLostAcrossThreads ==
    /\ AllStored
    /\ \E i, j \in DOMAIN storeOps :
         /\ storeOps[i].kind = "append" /\ storeOps[j].kind = "append"
         /\ storeOps[i].threadId # storeOps[j].threadId
         /\ ~AppendKept(i)

====
